---- MODULE Spec2Model ----
(***************************************************************************)
(* A model of saego_2025app.py: the keyword column resolver                *)
(* (find_similar_columns), and the three grouped analyses                  *)
(* (school_statistics, column_analysis, correlation_analysis) with their   *)
(* column selection, cleaning, per-group aggregation, rounding, sorting,   *)
(* filtering and export.                                                   *)
(*                                                                         *)
(* Text is a sequence of one-character strings, so that str.lower(), the   *)
(* substring test `in` and numeric parsing are computed character by       *)
(* character.  Accented characters are written as two-letter tokens        *)
(* ("e'" for e-acute, "e^" for e-circumflex, "c," for c-cedilla, "a~" for   *)
(* a-tilde).                                                               *)
(* Numbers are integers in hundredths (1.01 is 101); a mean is the pair    *)
(* (sum, count), so that full precision and the value rounded to two       *)
(* decimals are different things.                                          *)
(***************************************************************************)
EXTENDS Integers, Sequences, FiniteSets, TLC

VARIABLES
    columns,        \* find_similar_columns: data.columns
    keywords,       \* find_similar_columns: the keyword list
    found_columns,  \* find_similar_columns: the returned list
    rpc,            \* "call" before find_similar_columns ran, "returned" after
    data,           \* the loaded dataset: [cols, rows], rows of CSV cell texts
    view,           \* the analysis function that ran: "idle", "school", "column", "correlation"
    outcome,        \* how it ended: "none", "raised", "warning", "no_valid_data", "rendered"
    coluna_escola,  \* the grouping column (coluna_escola / coluna_agrupamento)
    colunas_desempenho, \* the metric columns (coluna_total_pontos / colunas_analise / colunas_desempenho)
    data_clean,     \* data_analysis.dropna(): rows [idx, vals]
    initial_count,  \* len(data_analysis), where the function takes it
    final_count,    \* len(data_clean)
    removed_count,  \* initial_count - final_count, as school_statistics reports it
    estatisticas_escolas,    \* the per-group statistics table (estatisticas_agrupadas in the general branch)
    medias_por_escola,       \* correlation_analysis: the per-school table of counts and means
    medias_por_escola_columns,   \* correlation_analysis: medias_por_escola.columns
    min_alunos,     \* the slider value
    escolas_filtradas,       \* the multiselect value (a set of labels)
    estatisticas_filtradas,  \* the filtered table
    csv,            \* the table given to to_csv for the download button
    resumo,         \* school_statistics: the metrics of 'Resumo Geral'
    resumo_correlacoes,      \* correlation_analysis: the rows of the summary of correlations
    dist_tamanho,   \* correlation_analysis: the number of schools of each size category
    recomendacao,   \* correlation_analysis: the recommendation message shown, "" if none
    ui,             \* the elements rendered, in order
    correlacao,     \* the classifiers: the coefficient r they are given
    interpretacao,  \* interpretar_correlacao_simples(r), "" before the call
    detalhada,      \* interpretar_correlacao_detalhada(r)
    forca,          \* classificar_forca_correlacao(r)
    analysis_type,  \* the script: the value of the sidebar radio
    arquivos,       \* the two files on disk: [a3, a9], each [status, table]
    dados_3anos,    \* load_data("dados_3anos.csv"): a dataset or None
    dados_9anos,    \* load_data("dados_9anos.csv")
    runpc,          \* the position of the script run
    chamadas,       \* the analysis functions called: [tab, fn, outcome]
    page            \* what the script itself rendered, in order

rvars == <<columns, keywords, found_columns, rpc>>

avars == <<data, view, outcome, coluna_escola, colunas_desempenho, data_clean,
           initial_count, final_count, removed_count, estatisticas_escolas,
           medias_por_escola, medias_por_escola_columns, min_alunos, escolas_filtradas, estatisticas_filtradas, csv,
           resumo, resumo_correlacoes, dist_tamanho, recomendacao, ui>>

cvars == <<correlacao, interpretacao, detalhada, forca>>

svars == <<analysis_type, arquivos, dados_3anos, dados_9anos, runpc, chamadas, page>>

vars == <<rvars, avars, cvars, svars>>

----------------------------------------------------------------------------
(* Bounds of the model. *)

MaxCols == 3

MaxKeywords == 2

MaxRows == 4

MaxMetrics == 2

\* The largest number of students of a school given to pd.cut on its own.
MaxAlunos == 250

\* The largest number of rows of a table given to pd.cut, and of
\* coefficients given to the recommendation.
MaxSchools == 3

\* The sequences over S of length at most n.
SeqsUpTo(S, n) == UNION {[1..m -> S] : m \in 0..n}

----------------------------------------------------------------------------
(* Text: str.lower() and the substring operator `in`. *)

UpperChars ==
    << "A", "B", "C", "D", "E", "F", "G", "H", "I", "J", "K", "L", "M",
       "N", "O", "P", "Q", "R", "S", "T", "U", "V", "W", "X", "Y", "Z",
       "E'", "E^", "A'", "I'", "C,", "A~" >>

LowerChars ==
    << "a", "b", "c", "d", "e", "f", "g", "h", "i", "j", "k", "l", "m",
       "n", "o", "p", "q", "r", "s", "t", "u", "v", "w", "x", "y", "z",
       "e'", "e^", "a'", "i'", "c,", "a~" >>

\* str.lower() on one character.
LowerMap ==
    [c \in {UpperChars[i] : i \in 1..Len(UpperChars)} |->
        LowerChars[CHOOSE i \in 1..Len(UpperChars) : UpperChars[i] = c]]

LowerChar(c) == IF c \in DOMAIN LowerMap THEN LowerMap[c] ELSE c

Lower(s) == [i \in 1..Len(s) |-> LowerChar(s[i])]

\* Python `sub in s` on str: sub occurs in s as a contiguous run.
Contains(sub, s) ==
    \E off \in 0..(Len(s) - Len(sub)) :
        \A j \in 1..Len(sub) : s[off + j] = sub[j]

----------------------------------------------------------------------------
(* find_similar_columns *)

\* The inner loop `for keyword in keywords` over the lowered keywords: TRUE
\* when some keyword is found in col_lower, at which point the column is
\* appended and the loop broken.
RECURSIVE KeywordLoop(_, _, _)
KeywordLoop(col_lower, kws_lower, k) ==
    IF k > Len(kws_lower) THEN FALSE
    ELSE IF Contains(kws_lower[k], col_lower) THEN TRUE
    ELSE KeywordLoop(col_lower, kws_lower, k + 1)

\* The outer loop `for col in data.columns`.
RECURSIVE ColumnLoop(_, _, _, _)
ColumnLoop(cols, kws_lower, i, found) ==
    IF i > Len(cols) THEN found
    ELSE LET col_lower == Lower(cols[i]) IN
         ColumnLoop(cols, kws_lower, i + 1,
                    IF KeywordLoop(col_lower, kws_lower, 1)
                    THEN Append(found, cols[i])
                    ELSE found)

\* The keywords used as written (`keyword in col_lower`).
LowerNone(kws) == kws

\* `keyword.lower()` for every keyword of the list.
LowerAll(kws) == [k \in 1..Len(kws) |-> Lower(kws[k])]

find_similar_columns(cols, kws) == ColumnLoop(cols, LowerAll(kws), 1, <<>>)

----------------------------------------------------------------------------
(* Cell values.  A CSV cell is a text; read_csv gives a column of numbers *)
(* (with NaN for the empty cell) when every non-empty cell parses as a    *)
(* number, and otherwise an object column of str (with NaN for the empty   *)
(* cell).  A value is [k, v, s]: k = "num" with v in hundredths, k = "str" *)
(* with the text s, or k = "nan".                                          *)

Num(n) == [k |-> "num", v |-> n, s |-> <<>>]

Str(t) == [k |-> "str", v |-> 0, s |-> t]

NaN == [k |-> "nan", v |-> 0, s |-> <<>>]

Digits == << "0", "1", "2", "3", "4", "5", "6", "7", "8", "9" >>

IsDigit(c) == \E i \in 1..Len(Digits) : Digits[i] = c

DigitVal(c) == (CHOOSE i \in 1..Len(Digits) : Digits[i] = c) - 1

RECURSIVE DigitsValue(_, _, _)
DigitsValue(t, i, acc) ==
    IF i > Len(t) THEN acc
    ELSE DigitsValue(t, i + 1, acc * 10 + DigitVal(t[i]))

\* The text is an unsigned decimal numeral: digits with at most one point
\* and at least one digit (the model's cells carry at most two decimals).
IsNumeral(t) ==
    /\ \A i \in 1..Len(t) : IsDigit(t[i]) \/ t[i] = "."
    /\ Cardinality({i \in 1..Len(t) : t[i] = "."}) <= 1
    /\ \E i \in 1..Len(t) : IsDigit(t[i])

\* The value of a numeral, in hundredths.
NumeralValue(t) ==
    LET dots == {i \in 1..Len(t) : t[i] = "."}
        p    == IF dots = {} THEN Len(t) + 1 ELSE CHOOSE i \in dots : TRUE
        ip   == SubSeq(t, 1, p - 1)
        fp   == SubSeq(t, p + 1, Len(t))
        f2   == IF Len(fp) = 0 THEN <<"0", "0">>
                ELSE IF Len(fp) = 1 THEN <<fp[1], "0">>
                ELSE <<fp[1], fp[2]>>
    IN  DigitsValue(ip, 1, 0) * 100 + DigitsValue(f2, 1, 0)

\* to_numeric with the coercion forgotten: the unparsable str is kept.
to_numeric_keep(x) ==
    IF x.k = "str"
    THEN IF IsNumeral(x.s) THEN Num(NumeralValue(x.s)) ELSE x
    ELSE x

\* pd.to_numeric(..., errors='coerce') on one value of an object column:
\* a str that parses becomes the number, one that does not becomes NaN,
\* NaN stays NaN; nothing raises.
to_numeric(x) ==
    IF x.k = "str"
    THEN IF IsNumeral(x.s) THEN Num(NumeralValue(x.s)) ELSE NaN
    ELSE x

----------------------------------------------------------------------------
(* The dataset: pd.read_csv. *)

ColIndex(d, name) == CHOOSE c \in 1..Len(d.cols) : d.cols[c] = name

\* The dtype read_csv infers for the column at position c: 'object' when
\* some non-empty cell is not a numeral.
IsObjectAt(d, c) ==
    \E r \in 1..Len(d.rows) :
        d.rows[r][c] # <<>> /\ ~IsNumeral(d.rows[r][c])

IsObject(d, name) == IsObjectAt(d, ColIndex(d, name))

\* The value read_csv loads for the cell text t of a column.
Loaded(t, object) ==
    IF t = <<>> THEN NaN
    ELSE IF object THEN Str(t)
    ELSE Num(NumeralValue(t))

\* data[names].copy(): the selected columns of every row, with the row index.
SelectColumns(d, names) ==
    LET at == [c \in 1..Len(names) |-> ColIndex(d, names[c])]
        ob == [c \in 1..Len(names) |-> IsObjectAt(d, at[c])]
    IN  [r \in 1..Len(d.rows) |->
            [idx |-> r,
             vals |-> [c \in 1..Len(names) |-> Loaded(d.rows[r][at[c]], ob[c])]]]

\* Selecting the same column twice gives a frame with two columns of one
\* name; frame[name] is then a DataFrame and `.dtype` raises AttributeError.
HasDuplicates(names) == \E i, j \in 1..Len(names) : i # j /\ names[i] = names[j]

\* `if frame[col].dtype == 'object': frame[col] = pd.to_numeric(frame[col],
\* errors='coerce')` for the columns at positions cs of the frame.
CoerceColumns(d, names, frame, cs) ==
    LET ob == [c \in 1..Len(names) |-> c \in cs /\ IsObject(d, names[c])]
    IN  [r \in 1..Len(frame) |->
            [idx |-> frame[r].idx,
             vals |-> [c \in 1..Len(names) |->
                         IF ob[c] THEN to_numeric(frame[r].vals[c])
                         ELSE frame[r].vals[c]]]]

RowHasNaN(row) == \E c \in 1..Len(row.vals) : row.vals[c].k = "nan"

\* dropna that looks at the first column only.
dropna_first_only(frame) == SelectSeq(frame, LAMBDA row : row.vals[1].k # "nan")

\* DataFrame.dropna(): the rows without a missing value, in order.
dropna(frame) == SelectSeq(frame, LAMBDA row : ~RowHasNaN(row))

----------------------------------------------------------------------------
(* Rounding and the aggregations of groupby(...).agg(...). *)

\* num/den (num >= 0, den > 0) rounded to the nearest integer, halves to the
\* even neighbour: DataFrame.round / numpy.round.
RoundHalfEven(num, den) ==
    LET q == num \div den
        r == num % den
    IN  IF 2 * r < den THEN q
        ELSE IF 2 * r > den THEN q + 1
        ELSE IF q % 2 = 0 THEN q ELSE q + 1

RECURSIVE SumSeq(_)
SumSeq(vs) == IF vs = <<>> THEN 0 ELSE Head(vs) + SumSeq(Tail(vs))

RECURSIVE SumSq(_)
SumSq(vs) == IF vs = <<>> THEN 0 ELSE Head(vs) * Head(vs) + SumSq(Tail(vs))

KthSmallest(vs, k) ==
    CHOOSE x \in {vs[i] : i \in 1..Len(vs)} :
        /\ Cardinality({i \in 1..Len(vs) : vs[i] < x}) < k
        /\ Cardinality({i \in 1..Len(vs) : vs[i] <= x}) >= k

\* An aggregated statistic: a number, or NaN when the group has no value.
Val(x) == [nan |-> FALSE, v |-> x]

NaNStat == [nan |-> TRUE, v |-> 0]

\* 'nunique' in place of 'count': the number of distinct values.
agg_nunique(vs) == Cardinality({vs[i] : i \in 1..Len(vs)})

\* 'count': the number of non-null values (vs holds the non-null values).
agg_count(vs) == Len(vs)

\* 'mean': the exact quotient sum/count, kept as [num, den].
agg_mean(vs) == [num |-> SumSeq(vs), den |-> Len(vs)]

\* A median that forgets to halve the sum of the two middle values.
agg_median_nohalf(vs) ==
    LET n == Len(vs) IN
    IF n % 2 = 1
    THEN [num |-> KthSmallest(vs, (n + 1) \div 2), den |-> 1]
    ELSE [num |-> KthSmallest(vs, n \div 2) + KthSmallest(vs, n \div 2 + 1),
          den |-> 1]

\* 'median': the middle value, or the mean of the two middle values.
agg_median(vs) ==
    LET n == Len(vs) IN
    IF n % 2 = 1
    THEN [num |-> KthSmallest(vs, (n + 1) \div 2), den |-> 1]
    ELSE [num |-> KthSmallest(vs, n \div 2) + KthSmallest(vs, n \div 2 + 1),
          den |-> 2]

agg_min(vs) == KthSmallest(vs, 1)

agg_max(vs) == KthSmallest(vs, Len(vs))

\* .round(2) of a quotient: the value in hundredths to the nearest integer.
Round2(q) == Val(RoundHalfEven(q.num, q.den))

\* The largest m with m * m <= x, by bisection of lo..hi.
RECURSIVE ISqrtIn(_, _, _)
ISqrtIn(x, lo, hi) ==
    IF lo >= hi THEN lo
    ELSE LET mid == (lo + hi + 1) \div 2 IN
         IF mid * mid <= x THEN ISqrtIn(x, mid, hi) ELSE ISqrtIn(x, lo, mid - 1)

ISqrt(x) == ISqrtIn(x, 0, IF x < 40000 THEN x ELSE 40000)

\* sqrt(n2/d2) rounded to the nearest integer (halves to even): with
\* t = sqrt(4*n2/d2), the nearest integer to t/2.
RoundedSqrt(n2, d2) ==
    LET m == ISqrt((4 * n2) \div d2)
        k == (m + 1) \div 2
    IN  IF m % 2 = 1 /\ m * m * d2 = 4 * n2 /\ k % 2 = 1 THEN k - 1 ELSE k

\* The population standard deviation (ddof = 0) in its place.
agg_std_round_pop(vs) ==
    LET n == Len(vs) IN
    IF n < 1 THEN NaNStat
    ELSE Val(RoundedSqrt(n * SumSq(vs) - SumSeq(vs) * SumSeq(vs), n * n))

\* 'std' rounded to 2 decimals: the sample standard deviation (ddof = 1),
\* NaN for fewer than two values.
agg_std_round(vs) ==
    LET n == Len(vs) IN
    IF n < 2 THEN NaNStat
    ELSE Val(RoundedSqrt(n * SumSq(vs) - SumSeq(vs) * SumSeq(vs), n * (n - 1)))

----------------------------------------------------------------------------
(* groupby: the groups and their order. *)

\* The characters of the labels in code point order.
CodePoints ==
    << " ", ".", "0", "1", "2", "3", "4", "5", "6", "7", "8", "9", "?",
       "A", "B", "C", "D", "E", "F", "G", "H", "I", "J", "K", "L", "M",
       "N", "O", "P", "Q", "R", "S", "T", "U", "V", "W", "X", "Y", "Z", "_",
       "a", "b", "c", "d", "e", "f", "g", "h", "i", "j", "k", "l", "m",
       "n", "o", "p", "q", "r", "s", "t", "u", "v", "w", "x", "y", "z" >>

CodePoint(c) == CHOOSE i \in 1..Len(CodePoints) : CodePoints[i] = c

\* a < b on str.
TextLess(a, b) ==
    \E i \in 1..Len(b) :
        /\ \A j \in 1..(i - 1) : j <= Len(a) /\ a[j] = b[j]
        /\ \/ i = Len(a) + 1
           \/ i <= Len(a) /\ CodePoint(a[i]) < CodePoint(b[i])

\* The order of group keys: numbers by value, str by code points.
LabelLess(a, b) ==
    IF a.k = "num" /\ b.k = "num" THEN a.v < b.v
    ELSE IF a.k = "str" /\ b.k = "str" THEN TextLess(a.s, b.s)
    ELSE a.k = "num" /\ b.k = "str"

\* The distinct values of the grouping column (column 1 of the frame);
\* groupby leaves out the rows whose key is missing.
GroupLabels(frame) == {frame[r].vals[1] : r \in 1..Len(frame)} \ {NaN}

\* groupby sorts the group keys ascending.
RECURSIVE SortedLabels(_)
SortedLabels(S) ==
    IF S = {} THEN <<>>
    ELSE LET lo == CHOOSE a \in S : \A b \in S \ {a} : LabelLess(a, b)
         IN  <<lo>> \o SortedLabels(S \ {lo})

\* The non-null values of column c of the rows of one group, in row order
\* (the aggregations skip missing values).
RECURSIVE GroupValuesFrom(_, _, _, _)
GroupValuesFrom(frame, label, c, r) ==
    IF r > Len(frame) THEN <<>>
    ELSE (IF frame[r].vals[1] = label /\ frame[r].vals[c].k = "num"
          THEN <<frame[r].vals[c].v>> ELSE <<>>)
         \o GroupValuesFrom(frame, label, c, r + 1)

GroupValues(frame, label, c) == GroupValuesFrom(frame, label, c, 1)

----------------------------------------------------------------------------
(* school_statistics *)

pontos_keywords ==
    << <<"t", "o", "t", "a", "l">>,
       <<"p", "o", "n", "t", "o", "s">>,
       <<"p", "o", "i", "n", "t", "s">>,
       <<"s", "c", "o", "r", "e">>,
       <<"n", "o", "t", "a">> >>

escola_keywords ==
    << <<"e", "s", "c", "o", "l", "a">>,
       <<"s", "c", "h", "o", "o", "l">>,
       <<"c", "o", "l", "e'", "g", "i", "o">>,
       <<"c", "o", "l", "e", "g", "i", "o">>,
       <<"i", "n", "s", "t", "i", "t", "u", "i", "c,", "a~", "o">> >>

\* Lines 80-113: the columns found by keyword are used only when both lists
\* are non-empty; otherwise both come from the two selectboxes, whose value
\* is any column of the dataset.
\* Each role resolved on its own: a matched role keeps its first match and
\* only an unmatched role is selected by hand.
SchoolSelectionsPerRole(d) ==
    LET colunas_pontos == find_similar_columns(d.cols, pontos_keywords)
        colunas_escola == find_similar_columns(d.cols, escola_keywords)
        all == {d.cols[c] : c \in 1..Len(d.cols)}
    IN  {[auto |-> colunas_pontos # <<>> \/ colunas_escola # <<>>,
          pontos |-> p, escola |-> e] :
            p \in IF colunas_pontos = <<>> THEN all ELSE {colunas_pontos[1]},
            e \in IF colunas_escola = <<>> THEN all ELSE {colunas_escola[1]}}

\* Lines 80-113: the first match of each role when both roles have one,
\* the values of the two select boxes (any columns) otherwise.
SchoolSelections(d) ==
    LET colunas_pontos == find_similar_columns(d.cols, pontos_keywords)
        colunas_escola == find_similar_columns(d.cols, escola_keywords)
    IN  IF colunas_pontos = <<>> \/ colunas_escola = <<>>
        THEN {[auto |-> FALSE, pontos |-> d.cols[p], escola |-> d.cols[e]] :
                 p \in 1..Len(d.cols), e \in 1..Len(d.cols)}
        ELSE {[auto |-> TRUE, pontos |-> colunas_pontos[1],
               escola |-> colunas_escola[1]]}

\* Lines 118-130: data[[coluna_escola, coluna_total_pontos]].copy(), the
\* conversion of the points column when its dtype is object, and dropna().
SchoolClean(d, escola, pontos) ==
    LET names == <<escola, pontos>> IN
    dropna(CoerceColumns(d, names, SelectColumns(d, names), {2}))

\* The check left out: the function goes on with an empty frame.
NoValidDataIgnored(count) == FALSE

\* Lines 137-139: `if final_count == 0: st.error(...); return`.
NoValidData(count) == count = 0

\* Lines 153-160: one row per group with the six aggregations, rounded to 2
\* decimals (Quantidade_Alunos is an integer count and is not changed).
SchoolRow(frame, label) ==
    LET vs == GroupValues(frame, label, 2) IN
    IF vs = <<>>
    THEN [escola |-> label, Media |-> NaNStat, Mediana |-> NaNStat,
          Minimo |-> NaNStat, Maximo |-> NaNStat, Desvio_Padrao |-> NaNStat,
          Quantidade_Alunos |-> agg_count(vs)]
    ELSE [escola |-> label,
          Media |-> Round2(agg_mean(vs)),
          Mediana |-> Round2(agg_median(vs)),
          Minimo |-> Round2([num |-> agg_min(vs), den |-> 1]),
          Maximo |-> Round2([num |-> agg_max(vs), den |-> 1]),
          Desvio_Padrao |-> agg_std_round(vs),
          Quantidade_Alunos |-> agg_count(vs)]

SchoolAgg(frame) ==
    LET labels == SortedLabels(GroupLabels(frame)) IN
    [i \in 1..Len(labels) |-> SchoolRow(frame, labels[i])]

Injective(p) == \A i, j \in DOMAIN p : p[i] = p[j] => i = j

\* a comes no later than b in a descending sort (NaN comes last).
StatGE(a, b) == b.nan \/ (~a.nan /\ a.v >= b.v)

\* Line 163: sort_values('Média', ascending=False) with the default
\* (unstable) sort: any arrangement of the rows in which Média does not
\* increase; rows of equal Média may come in either order.
SortByMediaDesc(table) ==
    LET n == Len(table) IN
    {[i \in 1..n |-> table[p[i]]] :
        p \in {q \in [1..n -> 1..n] :
                 /\ Injective(q)
                 /\ \A i \in 1..(n - 1) :
                       StatGE(table[q[i]].Media, table[q[i + 1]].Media)}}

\* The filter with `>` in place of `>=`.
FilterTableStrict(table, minimo, allow) ==
    SelectSeq(table,
              LAMBDA row : /\ row.Quantidade_Alunos > minimo
                           /\ (IF allow # {} THEN row.escola \in allow ELSE TRUE))

\* Lines 191-194: the count threshold, and the allow-list when it is not
\* empty (`isin(escolas_filtradas) if escolas_filtradas else True`).
FilterTable(table, minimo, allow) ==
    SelectSeq(table,
              LAMBDA row : /\ row.Quantidade_Alunos >= minimo
                           /\ (IF allow # {} THEN row.escola \in allow ELSE TRUE))

MaxOf(S) == CHOOSE x \in S : \A y \in S : y <= x

TableLabels(table) == {table[i].escola : i \in 1..Len(table)}

MinOf(S) == CHOOSE x \in S : \A y \in S : x <= y

\* The rows of the table counted in place of their students.
CountRows(table) == Len(table)

\* table['Quantidade_Alunos'].sum(), lines 338 and 952.
RECURSIVE SumCounts(_)
SumCounts(table) ==
    IF table = <<>> THEN 0
    ELSE Head(table).Quantidade_Alunos + SumCounts(Tail(table))

\* No summary was rendered.
NoResumo ==
    [Total_de_Escolas |-> 0, escolas_filtradas |-> 0, Total_de_Alunos |-> 0,
     alunos_filtrados |-> 0, Maior_Media |-> 0, Menor_Media |-> 0]

\* The summary with the totals taken from the filtered table.
SchoolResumoOfFiltered(tab, filt) ==
    [Total_de_Escolas |-> Len(filt),
     escolas_filtradas |-> Len(filt),
     Total_de_Alunos |-> SumCounts(filt),
     alunos_filtrados |-> SumCounts(filt),
     Maior_Media |-> MaxOf({tab[i].Media.v : i \in 1..Len(tab)}),
     Menor_Media |-> MinOf({tab[i].Media.v : i \in 1..Len(tab)})]

\* Lines 333-352: 'Total de Escolas' and 'Total de Alunos' come from
\* estatisticas_escolas, their deltas from estatisticas_filtradas; the
\* highest and lowest mean come from estatisticas_escolas.
SchoolResumo(tab, filt) ==
    [Total_de_Escolas |-> Len(tab),
     escolas_filtradas |-> Len(filt),
     Total_de_Alunos |-> SumCounts(tab),
     alunos_filtrados |-> SumCounts(filt),
     Maior_Media |-> MaxOf({tab[i].Media.v : i \in 1..Len(tab)}),
     Menor_Media |-> MinOf({tab[i].Media.v : i \in 1..Len(tab)})]

\* What a call leaves behind: a value for every variable of the analysis.
Left(v, o, ce, cd, dc, ic, fc, tab, ma, ef, filt, c, u) ==
    [view |-> v, outcome |-> o, coluna_escola |-> ce,
     colunas_desempenho |-> cd, data_clean |-> dc, initial_count |-> ic,
     final_count |-> fc,
     removed_count |-> IF v = "school" THEN ic - fc ELSE 0,
     estatisticas_escolas |-> tab, medias_por_escola |-> <<>>,
     medias_por_escola_columns |-> <<>>,
     min_alunos |-> ma,
     escolas_filtradas |-> ef, estatisticas_filtradas |-> filt, csv |-> c,
     resumo |-> NoResumo, resumo_correlacoes |-> <<>>,
     dist_tamanho |-> <<>>, recomendacao |-> "",
     ui |-> u]

Show(res) ==
    /\ view' = res.view
    /\ outcome' = res.outcome
    /\ coluna_escola' = res.coluna_escola
    /\ colunas_desempenho' = res.colunas_desempenho
    /\ data_clean' = res.data_clean
    /\ initial_count' = res.initial_count
    /\ final_count' = res.final_count
    /\ removed_count' = res.removed_count
    /\ estatisticas_escolas' = res.estatisticas_escolas
    /\ medias_por_escola' = res.medias_por_escola
    /\ medias_por_escola_columns' = res.medias_por_escola_columns
    /\ min_alunos' = res.min_alunos
    /\ escolas_filtradas' = res.escolas_filtradas
    /\ estatisticas_filtradas' = res.estatisticas_filtradas
    /\ csv' = res.csv
    /\ resumo' = res.resumo
    /\ resumo_correlacoes' = res.resumo_correlacoes
    /\ dist_tamanho' = res.dist_tamanho
    /\ recomendacao' = res.recomendacao
    /\ ui' = res.ui

\* The caller's dataset after a call, were the function to clean the
\* DataFrame it was given: the rows with a missing value are gone from it.
OriginalAfterInPlace(d, res) ==
    IF res.view \in {"school", "column", "correlation"} /\ res.outcome # "raised"
    THEN [d EXCEPT !.rows = [i \in 1..Len(res.data_clean) |->
                                d.rows[res.data_clean[i].idx]]]
    ELSE d

\* Lines 118, 421 and 870: data_analysis = data[...].copy().  The coercions
\* (lines 120-122, 424-426, 877-882) and dropna (130, 429, 886) are made on
\* data_analysis, a new object; no statement assigns into `data`.
OriginalAfter(d, res) == d

\* A call of an analysis function on the dataset of the state.
Leave(res) ==
    /\ Show(res)
    /\ data' = OriginalAfter(data, res)
    /\ UNCHANGED <<rvars, cvars, svars>>

\* Lines 168-365, from the table on: the slider (1 to the largest count), the
\* multiselect (any set of the table's schools), the filtered table, the
\* charts, the summary and the download button.  With an empty table line
\* 177 raises (int of NaN) inside the try and line 367 reports it.
SchoolRender(escola, cd, clean, ic, tab, before) ==
    IF tab = <<>>
    THEN {Left("school", "caught", escola, cd, clean, ic, Len(clean), tab, 0,
               {}, <<>>, <<>>, before \o <<"groupby_agg", "error_exception">>)}
    ELSE {[Left("school", "rendered", escola, cd, clean, ic, Len(clean), tab,
                ma, ef, FilterTable(tab, ma, ef), tab,
                before \o <<"groupby_agg", "stats_table", "charts", "summary",
                            "download_button">>)
           EXCEPT !.resumo = SchoolResumo(tab, FilterTable(tab, ma, ef))] :
             ma \in 1..MaxOf({tab[i].Quantidade_Alunos : i \in 1..Len(tab)}),
             ef \in SUBSET TableLabels(tab)}

\* school_statistics(data, dataset_name), lines 67-369, for one choice of
\* columns: every way the call can end.
SchoolRun(d, sel) ==
    LET head == <<"header", "expander_colunas",
                  IF sel.auto THEN "success_colunas" ELSE "warning_manual">>
        cd == <<sel.pontos>>
    IN
    IF HasDuplicates(<<sel.escola, sel.pontos>>)
    THEN \* line 121: AttributeError, outside the try
         {Left("school", "raised", sel.escola, cd, <<>>, 0, 0, <<>>, 0, {},
               <<>>, <<>>, head)}
    ELSE
    LET clean == SchoolClean(d, sel.escola, sel.pontos)
        ic == Len(d.rows)
        counted == head \o <<"write_counts">>
    IN
    IF NoValidData(Len(clean))
    THEN {Left("school", "no_valid_data", sel.escola, cd, clean, ic,
               Len(clean), <<>>, 0, {}, <<>>, <<>>,
               counted \o <<"error_no_valid_data">>)}
    ELSE UNION {SchoolRender(sel.escola, cd, clean, ic, tab, counted) :
                   tab \in SortByMediaDesc(SchoolAgg(clean))}

SchoolStatistics ==
    /\ view = "idle"
    /\ \E sel \in SchoolSelections(data) :
          \E res \in SchoolRun(data, sel) : Leave(res)

----------------------------------------------------------------------------
(* column_analysis *)

nota_lp_keywords ==
    << <<"n", "o", "t", "a", " ", "l", "p">>,
       <<"n", "o", "t", "a", "_", "l", "p">>,
       <<"p", "o", "r", "t", "u", "g", "u", "e", "s">>,
       <<"p", "o", "r", "t", "u", "g", "u", "e^", "s">>,
       <<"l", "i", "n", "g", "u", "a", " ", "p", "o", "r", "t", "u", "g", "u", "e", "s", "a">> >>

nota_mat_keywords ==
    << <<"n", "o", "t", "a", " ", "m", "a", "t">>,
       <<"n", "o", "t", "a", "_", "m", "a", "t">>,
       <<"m", "a", "t", "e", "m", "a'", "t", "i", "c", "a">>,
       <<"m", "a", "t", "e", "m", "a", "t", "i", "c", "a">>,
       <<"m", "a", "t", "h">> >>

\* Lines 391-404: the selectbox gives any column for the grouping, the
\* multiselect any list of distinct columns (the keyword matches only set
\* the defaults of the two widgets).  The list is taken in column order:
\* the order of selection only permutes the columns of the table.
ColumnSelections(d) ==
    {[agrupamento |-> d.cols[g],
      analise |-> [i \in 1..Len(p) |-> d.cols[p[i]]]] :
        g \in 1..Len(d.cols),
        p \in {q \in SeqsUpTo(1..Len(d.cols), MaxMetrics) :
                  \A i \in 1..(Len(q) - 1) : q[i] < q[i + 1]}}

\* Lines 411-413: `any(keyword in name.lower() for keyword in keywords)`.
HasKeyword(name, kws) == KeywordLoop(Lower(name), kws, 1)

\* Lines 436 and 688: agg(['mean', 'std', 'count']).round(2) of every
\* analysed column, one row per group in the order of the group keys
\* (neither branch sorts the table).
ColumnRow(frame, label, nmetrics) ==
    [escola |-> label,
     stats |-> [m \in 1..nmetrics |->
                  LET vs == GroupValues(frame, label, m + 1) IN
                  [mean |-> IF vs = <<>> THEN NaNStat ELSE Round2(agg_mean(vs)),
                   std |-> agg_std_round(vs),
                   count |-> agg_count(vs)]]]

ColumnAgg(frame, nmetrics) ==
    LET labels == SortedLabels(GroupLabels(frame)) IN
    [i \in 1..Len(labels) |-> ColumnRow(frame, labels[i], nmetrics)]

\* Lines 420-429 and 672-681: the copy of the selected columns, the
\* conversion of the analysed columns of dtype object, and dropna().
ColumnClean(d, agrupamento, analise) ==
    LET names == <<agrupamento>> \o analise IN
    dropna(CoerceColumns(d, names, SelectColumns(d, names), 2..Len(names)))

\* column_analysis(data, dataset_name), lines 372-767, for one choice of
\* the two widgets.
ColumnRun(d, sel) ==
    LET head == <<"header", "selectbox_agrupamento", "multiselect_analise">> IN
    IF sel.analise = <<>>
    THEN \* lines 406-408
         Left("column", "warning", sel.agrupamento, sel.analise, <<>>, 0, 0,
              <<>>, 0, {}, <<>>, <<>>, head \o <<"warning_selecione">>)
    ELSE
    LET tem_escola == HasKeyword(sel.agrupamento, escola_keywords)
        tem_nota_lp == \E i \in 1..Len(sel.analise) :
                          HasKeyword(sel.analise[i], nota_lp_keywords)
        tem_nota_mat == \E i \in 1..Len(sel.analise) :
                           HasKeyword(sel.analise[i], nota_mat_keywords)
        branch == IF tem_escola /\ (tem_nota_lp \/ tem_nota_mat)
                  THEN "subheader_notas_por_escola"
                  ELSE "subheader_analise_geral"
        begun == head \o <<branch>>
    IN
    IF HasDuplicates(<<sel.agrupamento>> \o sel.analise)
    THEN \* lines 425 and 677: AttributeError; nothing catches it
         Left("column", "raised", sel.agrupamento, sel.analise, <<>>, 0, 0,
              <<>>, 0, {}, <<>>, <<>>, begun)
    ELSE
    LET clean == ColumnClean(d, sel.agrupamento, sel.analise)
        tab == ColumnAgg(clean, Len(sel.analise))
    IN
    IF NoValidData(Len(clean))
    THEN \* lines 431-433 and 683-685
         Left("column", "no_valid_data", sel.agrupamento, sel.analise, clean,
              0, Len(clean), <<>>, 0, {}, <<>>, <<>>,
              begun \o <<"error_no_valid_data">>)
    ELSE \* lines 755-767: the table of the branch that ran is exported
         Left("column", "rendered", sel.agrupamento, sel.analise, clean,
              0, Len(clean), tab, 0, {}, <<>>, tab,
              begun \o <<"groupby_agg", "stats_table", "charts",
                         "download_button">>)

ColumnAnalysis ==
    /\ view = "idle"
    /\ \E res \in {ColumnRun(data, sel) : sel \in ColumnSelections(data)} :
          Leave(res)

----------------------------------------------------------------------------
(* The classifiers of the coefficient.  r is [nan, v] with v in thousandths *)
(* (corr_matrix is rounded to 3 decimals); a comparison with NaN is false.  *)

\* Line 1007: .round(3).
RScale == 1000

\* `r >= x` and `r > x` of Python floats, x in thousandths.
FloatGE(r, x) == ~r.nan /\ r.v >= x

FloatGT(r, x) == ~r.nan /\ r.v > x

\* abs(r).
FloatAbs(r) == IF r.nan THEN r ELSE Val(IF r.v < 0 THEN 0 - r.v ELSE r.v)

\* The positive thresholds tested from the lowest up.
interpretar_correlacao_simples_asc(r) ==
    IF FloatGE(r, 300) THEN "Correlacao positiva fraca"
    ELSE IF FloatGE(r, 500) THEN "Correlacao positiva moderada"
    ELSE IF FloatGE(r, 700) THEN "Correlacao positiva forte"
    ELSE IF FloatGT(r, -300) THEN "Correlacao muito fraca ou nula"
    ELSE IF FloatGT(r, -500) THEN "Correlacao negativa fraca"
    ELSE IF FloatGT(r, -700) THEN "Correlacao negativa moderada"
    ELSE "Correlacao negativa forte"

\* The comparison of the negative side made with `>=`.
interpretar_correlacao_simples_ge(r) ==
    IF FloatGE(r, 700) THEN "Correlacao positiva forte"
    ELSE IF FloatGE(r, 500) THEN "Correlacao positiva moderada"
    ELSE IF FloatGE(r, 300) THEN "Correlacao positiva fraca"
    ELSE IF FloatGE(r, -300) THEN "Correlacao muito fraca ou nula"
    ELSE IF FloatGE(r, -500) THEN "Correlacao negativa fraca"
    ELSE IF FloatGE(r, -700) THEN "Correlacao negativa moderada"
    ELSE "Correlacao negativa forte"

\* Lines 1289-1304.
interpretar_correlacao_simples(r) ==
    IF FloatGE(r, 700) THEN "Correlacao positiva forte"
    ELSE IF FloatGE(r, 500) THEN "Correlacao positiva moderada"
    ELSE IF FloatGE(r, 300) THEN "Correlacao positiva fraca"
    ELSE IF FloatGT(r, -300) THEN "Correlacao muito fraca ou nula"
    ELSE IF FloatGT(r, -500) THEN "Correlacao negativa fraca"
    ELSE IF FloatGT(r, -700) THEN "Correlacao negativa moderada"
    ELSE "Correlacao negativa forte"

\* The positive thresholds of the detailed interpretation tested with `>`.
interpretar_correlacao_detalhada_gt(r) ==
    IF FloatGT(r, 700)
    THEN "Correlacao positiva forte: escolas com mais alunos tendem a ter desempenho significativamente melhor"
    ELSE IF FloatGT(r, 500)
    THEN "Correlacao positiva moderada: existe uma relacao positiva entre tamanho da escola e desempenho"
    ELSE IF FloatGT(r, 300)
    THEN "Correlacao positiva fraca: leve tendencia de escolas maiores terem melhor desempenho"
    ELSE IF FloatGT(r, -300)
    THEN "Correlacao muito fraca ou nula: praticamente nao ha relacao entre tamanho da escola e desempenho"
    ELSE IF FloatGT(r, -500)
    THEN "Correlacao negativa fraca: leve tendencia de escolas menores terem melhor desempenho"
    ELSE IF FloatGT(r, -700)
    THEN "Correlacao negativa moderada: escolas menores tendem a ter melhor desempenho"
    ELSE "Correlacao negativa forte: escolas com menos alunos tendem a ter desempenho significativamente melhor"

\* Lines 1272-1287: the same thresholds, a sentence after each label.
interpretar_correlacao_detalhada(r) ==
    IF FloatGE(r, 700)
    THEN "Correlacao positiva forte: escolas com mais alunos tendem a ter desempenho significativamente melhor"
    ELSE IF FloatGE(r, 500)
    THEN "Correlacao positiva moderada: existe uma relacao positiva entre tamanho da escola e desempenho"
    ELSE IF FloatGE(r, 300)
    THEN "Correlacao positiva fraca: leve tendencia de escolas maiores terem melhor desempenho"
    ELSE IF FloatGT(r, -300)
    THEN "Correlacao muito fraca ou nula: praticamente nao ha relacao entre tamanho da escola e desempenho"
    ELSE IF FloatGT(r, -500)
    THEN "Correlacao negativa fraca: leve tendencia de escolas menores terem melhor desempenho"
    ELSE IF FloatGT(r, -700)
    THEN "Correlacao negativa moderada: escolas menores tendem a ter melhor desempenho"
    ELSE "Correlacao negativa forte: escolas com menos alunos tendem a ter desempenho significativamente melhor"

\* The strength taken from r in place of abs(r).
classificar_forca_sem_abs(r) ==
    IF FloatGE(r, 700) THEN "Forte"
    ELSE IF FloatGE(r, 500) THEN "Moderada"
    ELSE IF FloatGE(r, 300) THEN "Fraca"
    ELSE "Muito Fraca"

\* Lines 1306-1316.
classificar_forca_correlacao(r) ==
    LET abs_r == FloatAbs(r) IN
    IF FloatGE(abs_r, 700) THEN "Forte"
    ELSE IF FloatGE(abs_r, 500) THEN "Moderada"
    ELSE IF FloatGE(abs_r, 300) THEN "Fraca"
    ELSE "Muito Fraca"

\* No classifier was called on r.
NotClassified(r) ==
    /\ correlacao = r
    /\ interpretacao = ""
    /\ detalhada = ""
    /\ forca = ""

----------------------------------------------------------------------------
(* correlation_analysis *)

corr_escola_keywords ==
    << <<"e", "s", "c", "o", "l", "a">>,
       <<"s", "c", "h", "o", "o", "l">>,
       <<"c", "o", "l", "e'", "g", "i", "o">>,
       <<"c", "o", "l", "e", "g", "i", "o">>,
       <<"i", "n", "s", "t", "i", "t", "u", "i", "c,", "a~", "o">>,
       <<"u", "n", "i", "d", "a", "d", "e">>,
       <<"q", "u", "a", "l", " ", "a", " ", "s", "u", "a", " ", "e", "s", "c", "o", "l", "a">> >>

corr_total_pontos_keywords ==
    << <<"t", "o", "t", "a", "l">>,
       <<"p", "o", "n", "t", "o", "s">>,
       <<"p", "o", "i", "n", "t", "s">>,
       <<"s", "c", "o", "r", "e">>,
       <<"n", "o", "t", "a", " ", "t", "o", "t", "a", "l">>,
       <<"t", "o", "t", "a", "l", " ", "d", "e", " ", "p", "o", "n", "t", "o", "s">> >>

corr_nota_lp_keywords ==
    << <<"n", "o", "t", "a", " ", "l", "p">>,
       <<"n", "o", "t", "a", "_", "l", "p">>,
       <<"p", "o", "r", "t", "u", "g", "u", "e", "s">>,
       <<"p", "o", "r", "t", "u", "g", "u", "e^", "s">>,
       <<"l", "i", "n", "g", "u", "a", " ", "p", "o", "r", "t", "u", "g", "u", "e", "s", "a">>,
       <<"l", "p">>,
       <<"l", "i'", "n", "g", "u", "a", " ", "p", "o", "r", "t", "u", "g", "u", "e", "s", "a">> >>

corr_nota_mat_keywords ==
    << <<"n", "o", "t", "a", " ", "m", "a", "t">>,
       <<"n", "o", "t", "a", "_", "m", "a", "t">>,
       <<"m", "a", "t", "e", "m", "a'", "t", "i", "c", "a">>,
       <<"m", "a", "t", "e", "m", "a", "t", "i", "c", "a">>,
       <<"m", "a", "t", "h">>,
       <<"m", "a", "t">> >>

\* Lines 801-853: each role takes the first column found by its keywords,
\* or, when none is found, the value of its own selectbox (any column).
RoleChoices(d, kws) ==
    LET found == find_similar_columns(d.cols, kws) IN
    IF found # <<>> THEN {found[1]} ELSE {d.cols[c] : c \in 1..Len(d.cols)}

CorrelationSelections(d) ==
    {[escola |-> e, desempenho |-> <<t, lp, mat>>] :
        e \in RoleChoices(d, corr_escola_keywords),
        t \in RoleChoices(d, corr_total_pontos_keywords),
        lp \in RoleChoices(d, corr_nota_lp_keywords),
        mat \in RoleChoices(d, corr_nota_mat_keywords)}

\* Lines 869-887.
CorrelationClean(d, escola, desempenho) ==
    LET names == <<escola>> \o desempenho IN
    dropna(CoerceColumns(d, names, SelectColumns(d, names), 2..Len(names)))

\* Lines 899-934: per school the count of the first performance column and
\* the mean of every performance column; nothing is rounded.
CorrelationRow(frame, label, nmetrics) ==
    [Escola |-> label,
     Quantidade_Alunos |-> agg_count(GroupValues(frame, label, 2)),
     Media |-> [m \in 1..nmetrics |-> agg_mean(GroupValues(frame, label, m + 1))]]

CorrelationAgg(frame, nmetrics) ==
    LET labels == SortedLabels(GroupLabels(frame)) IN
    [i \in 1..Len(labels) |-> CorrelationRow(frame, labels[i], nmetrics)]

RECURSIVE Gcd(_, _)
Gcd(a, b) == IF b = 0 THEN a ELSE Gcd(b, a % b)

RECURSIVE GcdSeq(_)
GcdSeq(vs) == IF vs = <<>> THEN 0 ELSE Gcd(Head(vs), GcdSeq(Tail(vs)))

RECURSIVE LcmSeq(_)
LcmSeq(vs) ==
    IF vs = <<>> THEN 1
    ELSE LET l == LcmSeq(Tail(vs)) IN (Head(vs) \div Gcd(Head(vs), l)) * l

\* a * m = q * d + r with 0 <= r < d, for 0 <= a <= d, computed by doubling
\* so that no intermediate value exceeds d.
RECURSIVE MulDiv(_, _, _)
MulDiv(a, m, d) ==
    IF m = 0 THEN [q |-> 0, r |-> 0]
    ELSE LET h == MulDiv(a, m \div 2, d)
             c2 == IF h.r >= d - h.r THEN 1 ELSE 0
             r2 == IF c2 = 1 THEN h.r - (d - h.r) ELSE 2 * h.r
             q2 == 2 * h.q + c2
             a1 == a % d
         IN  IF m % 2 = 0 THEN [q |-> q2, r |-> r2]
             ELSE IF r2 >= d - a1
                  THEN [q |-> q2 + a \div d + 1, r |-> r2 - (d - a1)]
                  ELSE [q |-> q2 + a \div d, r |-> r2 + a1]

\* RScale * sqrt(n2/d2) rounded to the nearest integer (halves to even), for
\* 0 <= n2 <= d2.
RoundedRatioSqrt(n2, d2) ==
    LET f == MulDiv(n2, 4 * RScale * RScale, d2)
        m == ISqrt(f.q)
        k == (m + 1) \div 2
    IN  IF m % 2 = 1 /\ m * m = f.q /\ f.r = 0 /\ k % 2 = 1 THEN k - 1 ELSE k

\* One point per row of the school: the school's point as many times as it
\* has students.
RECURSIVE CorrelationPointsPerStudent(_, _)
CorrelationPointsPerStudent(tab, m) ==
    IF tab = <<>> THEN <<>>
    ELSE [i \in 1..Head(tab).Quantidade_Alunos |->
             [x |-> Head(tab).Quantidade_Alunos, y |-> Head(tab).Media[m]]]
         \o CorrelationPointsPerStudent(Tail(tab), m)

\* Lines 1005-1006: data_corr = medias_por_escola[['Quantidade_Alunos'] +
\* colunas_media]: for metric m one point per row of the per-school table,
\* the count and the mean as aggregated.
CorrelationPoints(tab, m) ==
    [i \in 1..Len(tab) |->
        [x |-> tab[i].Quantidade_Alunos, y |-> tab[i].Media[m]]]

\* Line 1007: DataFrame.corr() (Pearson) of x and y, rounded to 3 decimals;
\* NaN when x or y has no variance (a single point included).  The means
\* num/den are put on their common denominator and taken relative to the
\* smallest, which leaves the coefficient unchanged.
Pearson(points) ==
    LET G == Len(points)
        L == LcmSeq([i \in 1..G |-> points[i].y.den])
        Y0 == [i \in 1..G |-> points[i].y.num * (L \div points[i].y.den)]
        lo == MinOf({Y0[i] : i \in 1..G})
        g == GcdSeq([i \in 1..G |-> Y0[i] - lo])
        Y == [i \in 1..G |-> IF g = 0 THEN 0 ELSE (Y0[i] - lo) \div g]
        X == [i \in 1..G |-> points[i].x]
        Sx == SumSeq(X)
        Sy == SumSeq(Y)
        N == G * SumSeq([i \in 1..G |-> X[i] * Y[i]]) - Sx * Sy
        A == G * SumSq(X) - Sx * Sx
        B == G * SumSq(Y) - Sy * Sy
    IN  IF A = 0 \/ B = 0 THEN NaNStat
        ELSE IF N < 0 THEN Val(0 - RoundedRatioSqrt(N * N, A * B))
        ELSE Val(RoundedRatioSqrt(N * N, A * B))

\* Lines 1137-1147: one row per metric with the coefficient of the school
\* sizes and the metric's means, its interpretation and its strength.
ResumoCorrelacoes(tab, desempenho) ==
    [m \in 1..Len(desempenho) |->
        LET r == Pearson(CorrelationPoints(tab, m)) IN
        [Metrica |-> desempenho[m],
         correlacao |-> r,
         Interpretacao |-> interpretar_correlacao_simples(r),
         Forca |-> classificar_forca_correlacao(r)]]

NameEscola == <<"E", "s", "c", "o", "l", "a">>

NameQuantidadeAlunos ==
    <<"Q", "u", "a", "n", "t", "i", "d", "a", "d", "e", "_",
      "A", "l", "u", "n", "o", "s">>

NameTamanhoEscola ==
    <<"T", "a", "m", "a", "n", "h", "o", "_", "E", "s", "c", "o", "l", "a">>

PrefixMedia == <<"M", "e", "d", "i", "a", "_">>

SuffixCount == <<"_", "c", "o", "u", "n", "t">>

SuffixMean == <<"_", "m", "e", "a", "n">>

\* Lines 899-911: agg_dict gives the first performance column the list
\* ['count', 'mean'] and every other one 'mean'; the column pairs are joined
\* with '_' and reset_index puts the grouping column first.
AggColumns(escola, desempenho) ==
    <<escola, desempenho[1] \o SuffixCount, desempenho[1] \o SuffixMean>>
    \o [m \in 1..(Len(desempenho) - 1) |-> desempenho[m + 1] \o SuffixMean]

\* Lines 918-921: the first column whose name contains '_count', 0 if none.
FirstCountColumn(cols) ==
    LET I == {i \in 1..Len(cols) : Contains(SuffixCount, cols[i])} IN
    IF I = {} THEN 0 ELSE MinOf(I)

\* Lines 924-927: the last performance column whose name followed by
\* '_mean' occurs in col (each match overwrites rename_dict[col]), 0 if none.
LastMeanMatch(col, desempenho) ==
    LET M == {m \in 1..Len(desempenho) :
                 Contains(desempenho[m] \o SuffixMean, col)} IN
    IF M = {} THEN 0 ELSE MaxOf(M)

\* Lines 915-927: rename_dict, by column name; a later assignment to a key
\* replaces an earlier one, a column without a key keeps its name.
rename_dict(cols, escola, desempenho) ==
    [name \in {cols[i] : i \in 1..Len(cols)} |->
        LET m == LastMeanMatch(name, desempenho)
            k == FirstCountColumn(cols)
        IN  IF m # 0 THEN PrefixMedia \o desempenho[m]
            ELSE IF k # 0 /\ cols[k] = name THEN NameQuantidadeAlunos
            ELSE IF name = escola THEN NameEscola
            ELSE name]

\* Line 929: medias_por_escola.rename(columns=rename_dict).
RenamedColumns(escola, desempenho) ==
    LET cols == AggColumns(escola, desempenho)
        rd == rename_dict(cols, escola, desempenho)
    IN  [i \in 1..Len(cols) |-> rd[cols[i]]]

InSeq(x, xs) == \E i \in 1..Len(xs) : xs[i] = x

\* Lines 932-941: the count column merged in when the renaming left none,
\* then the size category as the last column.
TableColumns(escola, desempenho) ==
    LET cols == RenamedColumns(escola, desempenho) IN
    (IF InSeq(NameQuantidadeAlunos, cols) THEN cols
     ELSE Append(cols, NameQuantidadeAlunos))
    \o <<NameTamanhoEscola>>

\* col.startswith('Media_').
StartsWithMedia(col) ==
    Len(col) >= Len(PrefixMedia) /\ SubSeq(col, 1, Len(PrefixMedia)) = PrefixMedia

\* Line 998.
ColunasMedia(cols) == SelectSeq(cols, StartsWithMedia)

\* Line 939: bins=[0, 50, 100, 200, float('inf')], the last edge left out.
BinEdges == <<0, 50, 100, 200>>

\* Line 940.
TamanhoLabels ==
    <<"Pequena (<=50)", "Media (51-100)", "Grande (101-200)", "Muito Grande (>200)">>

\* The bins closed on the left: [0, 50), [50, 100), [100, 200), [200, inf).
pd_cut_left(x) ==
    LET K == {k \in 1..Len(BinEdges) : BinEdges[k] <= x} IN
    IF K = {} THEN "NaN" ELSE TamanhoLabels[MaxOf(K)]

\* Lines 937-941: pd.cut with right=True, include_lowest=False: the bins
\* are (0, 50], (50, 100], (100, 200], (200, inf); a value in none is NaN.
pd_cut(x) ==
    LET K == {k \in 1..Len(BinEdges) : BinEdges[k] < x} IN
    IF K = {} THEN "NaN" ELSE TamanhoLabels[MaxOf(K)]

\* Line 937: the column Tamanho_Escola added to the table.
WithTamanho(tab) ==
    [i \in 1..Len(tab) |->
        [Escola |-> tab[i].Escola,
         Quantidade_Alunos |-> tab[i].Quantidade_Alunos,
         Media |-> tab[i].Media,
         Tamanho_Escola |-> pd_cut(tab[i].Quantidade_Alunos)]]

\* Line 974: value_counts().sort_index() of the categorical column: one
\* entry per category, in the order of the labels, NaN not counted.
value_counts(tab) ==
    [k \in 1..Len(TamanhoLabels) |->
        [Tamanho_Escola |-> TamanhoLabels[k],
         count |-> Cardinality({i \in 1..Len(tab) :
                                  tab[i].Tamanho_Escola = TamanhoLabels[k]})]]

FloatLT(r, x) == ~r.nan /\ r.v < x

\* The strong-evidence messages given from 0.5 and -0.5 on.
RecomendacaoInclusive(rs) ==
    IF \E i \in 1..Len(rs) : FloatGE(rs[i], 500)
    THEN "success_vantagem_escolas_maiores"
    ELSE IF \E i \in 1..Len(rs) : ~FloatGT(rs[i], -500) /\ ~rs[i].nan
    THEN "warning_vantagem_escolas_menores"
    ELSE "info_relacao_limitada"

\* Lines 1224-1246: the recommendation for the coefficients of the summary.
Recomendacao(rs) ==
    IF \E i \in 1..Len(rs) : FloatGT(rs[i], 500)
    THEN "success_vantagem_escolas_maiores"
    ELSE IF \E i \in 1..Len(rs) : FloatLT(rs[i], -500)
    THEN "warning_vantagem_escolas_menores"
    ELSE "info_relacao_limitada"

\* Lines 950-952: 'Total de Escolas' and 'Total de Alunos' of the summary.
CorrelationResumo(tab) ==
    [NoResumo EXCEPT !.Total_de_Escolas = Len(tab),
                     !.Total_de_Alunos = SumCounts(tab)]

\* correlation_analysis(data, dataset_name), lines 771-1270, for one choice
\* of columns.  When two columns of the table carry one name,
\* correlacoes_com_quantidade[coluna_media] (line 1017) is a Series and the
\* format `{correlacao:.3f}` of line 1033 raises TypeError; a table without
\* the column 'Escola' or with two columns 'Quantidade_Alunos' fails before
\* (the merge of line 934, pd.cut of line 937).
CorrelationRun(d, sel) ==
    LET head == <<"header", "colunas_identificadas">> IN
    IF HasDuplicates(<<sel.escola>> \o sel.desempenho)
    THEN \* line 879: AttributeError; nothing catches it
         Left("correlation", "raised", sel.escola, sel.desempenho, <<>>, 0, 0,
              <<>>, 0, {}, <<>>, <<>>, head)
    ELSE
    LET clean == CorrelationClean(d, sel.escola, sel.desempenho)
        counted == head \o <<"write_counts">>
        cols == TableColumns(sel.escola, sel.desempenho)
        tab == CorrelationAgg(clean, Len(sel.desempenho))
    IN
    IF NoValidData(Len(clean))
    THEN \* lines 892-894
         Left("correlation", "no_valid_data", sel.escola, sel.desempenho,
              clean, Len(d.rows), Len(clean), <<>>, 0, {}, <<>>, <<>>,
              counted \o <<"error_no_valid_data">>)
    ELSE IF HasDuplicates(cols) \/ ~InSeq(NameEscola, cols)
    THEN [Left("correlation", "raised", sel.escola, sel.desempenho, clean,
               Len(d.rows), Len(clean), <<>>, 0, {}, <<>>, <<>>,
               counted \o <<"groupby_agg">>)
          EXCEPT !.medias_por_escola = WithTamanho(tab),
                 !.medias_por_escola_columns = cols]
    ELSE IF ColunasMedia(cols) = <<>>
    THEN \* lines 1000-1002
         [Left("correlation", "no_media", sel.escola, sel.desempenho, clean,
               Len(d.rows), Len(clean), <<>>, 0, {}, <<>>, <<>>,
               counted \o <<"groupby_agg", "summary", "error_no_media">>)
          EXCEPT !.medias_por_escola = WithTamanho(tab),
                 !.medias_por_escola_columns = cols,
                 !.resumo = CorrelationResumo(tab),
                 !.dist_tamanho = value_counts(WithTamanho(tab))]
    ELSE [Left("correlation", "rendered", sel.escola, sel.desempenho, clean,
               Len(d.rows), Len(clean), <<>>, 0, {}, <<>>, <<>>,
               counted \o <<"groupby_agg", "summary", "charts",
                            "correlation", "resumo_table", "insights">>)
          EXCEPT !.medias_por_escola = WithTamanho(tab),
                 !.medias_por_escola_columns = cols,
                 !.resumo = CorrelationResumo(tab),
                 !.dist_tamanho = value_counts(WithTamanho(tab)),
                 !.resumo_correlacoes =
                     ResumoCorrelacoes(tab, sel.desempenho),
                 !.recomendacao =
                     Recomendacao([m \in 1..Len(sel.desempenho) |->
                         ResumoCorrelacoes(tab, sel.desempenho)[m].correlacao])]

CorrelationAnalysis ==
    /\ view = "idle"
    /\ \E res \in {CorrelationRun(data, sel) : sel \in CorrelationSelections(data)} :
          Leave(res)

----------------------------------------------------------------------------
(* The state before any analysis ran. *)

NoDataset == [cols |-> <<>>, rows |-> <<>>]

\* None, the value load_data returns for a file it could not read.
None == NoDataset

\* No file of the script.
NoFile == [status |-> "off", table |-> NoDataset]

\* The script is not running.
NoRun ==
    /\ analysis_type = ""
    /\ arquivos = [a3 |-> NoFile, a9 |-> NoFile]
    /\ dados_3anos = None
    /\ dados_9anos = None
    /\ runpc = "off"
    /\ chamadas = <<>>
    /\ page = <<>>

Idle(v) ==
    /\ view = v
    /\ outcome = "none"
    /\ coluna_escola = <<>>
    /\ colunas_desempenho = <<>>
    /\ data_clean = <<>>
    /\ initial_count = 0
    /\ final_count = 0
    /\ removed_count = 0
    /\ estatisticas_escolas = <<>>
    /\ medias_por_escola = <<>>
    /\ medias_por_escola_columns = <<>>
    /\ min_alunos = 0
    /\ escolas_filtradas = {}
    /\ estatisticas_filtradas = <<>>
    /\ csv = <<>>
    /\ resumo = NoResumo
    /\ resumo_correlacoes = <<>>
    /\ dist_tamanho = <<>>
    /\ recomendacao = ""
    /\ ui = <<>>

----------------------------------------------------------------------------
(* The resolver on its own: any column list, any keyword list. *)

ColQualASuaEscola ==
    << "Q", "u", "a", "l", " ", "a", " ", "s", "u", "a", " ",
       "e", "s", "c", "o", "l", "a", "?" >>

ColTotalDePontos ==
    << "T", "o", "t", "a", "l", " ", "d", "e", " ", "p", "o", "n", "t", "o", "s" >>

ColESCOLA == << "E", "S", "C", "O", "L", "A" >>

ColTurma == << "T", "u", "r", "m", "a" >>

KwEscola == << "e", "s", "c", "o", "l", "a" >>

KwTotal == << "t", "o", "t", "a", "l" >>

KwPontos == << "p", "o", "n", "t", "o", "s" >>

KwTotalCap == << "T", "o", "t", "a", "l" >>

KwEmpty == << >>

NamePool == {ColQualASuaEscola, ColTotalDePontos, ColESCOLA, ColTurma}

KeywordPool == {KwEscola, KwTotal, KwPontos, KwTotalCap, KwEmpty}

\* read_csv never yields two columns of the same name.
ColumnLists ==
    {cs \in SeqsUpTo(NamePool, MaxCols) :
        \A i, j \in 1..Len(cs) : cs[i] = cs[j] => i = j}

KeywordLists == SeqsUpTo(KeywordPool, MaxKeywords)

InitResolve ==
    /\ columns \in ColumnLists
    /\ keywords \in KeywordLists
    /\ found_columns = <<>>
    /\ rpc = "call"
    /\ data = NoDataset
    /\ Idle("off")
    /\ NotClassified(NaNStat)
    /\ NoRun

FindSimilarColumns ==
    /\ rpc = "call"
    /\ found_columns' = find_similar_columns(columns, keywords)
    /\ rpc' = "returned"
    /\ UNCHANGED <<columns, keywords, avars, cvars, svars>>

NextResolve == FindSimilarColumns

SpecResolve == InitResolve /\ [][NextResolve]_vars

----------------------------------------------------------------------------
(* The classifiers on their own: every r of [-1, 1] in thousandths, and NaN. *)

InitClassify ==
    /\ \E r \in {Val(k) : k \in (0 - RScale)..RScale} \cup {NaNStat} :
          NotClassified(r)
    /\ data = NoDataset
    /\ Idle("off")
    /\ columns = <<>>
    /\ keywords = <<>>
    /\ found_columns = <<>>
    /\ rpc = "off"
    /\ NoRun

\* The three calls the summary of correlations makes on one coefficient.
Classify ==
    /\ forca = ""
    /\ interpretacao' = interpretar_correlacao_simples(correlacao)
    /\ detalhada' = interpretar_correlacao_detalhada(correlacao)
    /\ forca' = classificar_forca_correlacao(correlacao)
    /\ UNCHANGED <<correlacao, rvars, avars, svars>>

NextClassify == Classify

SpecClassify == InitClassify /\ [][NextClassify]_vars

----------------------------------------------------------------------------
(* The size categories and the recommendation on their own: per-school     *)
(* tables with up to MaxAlunos students in a school, and lists of          *)
(* coefficients on and around the thresholds.                              *)

SchoolNames == << <<"A">>, <<"B">>, <<"C">>, <<"D">>, <<"E">> >>

\* The counts on each side of every bin edge.
EdgeSizes ==
    {BinEdges[k] + 1 : k \in 1..Len(BinEdges)}
    \cup {BinEdges[k] : k \in 2..Len(BinEdges)}

\* Per-school tables as the aggregation leaves them: a count of at least 1.
SizeTables ==
    {[i \in 1..Len(q) |->
         [Escola |-> SchoolNames[i], Quantidade_Alunos |-> q[i], Media |-> <<>>]] :
       q \in {<<n>> : n \in 1..MaxAlunos}
              \cup (SeqsUpTo(EdgeSizes, MaxSchools) \ {<<>>})}

\* Coefficients on the thresholds of the recommendation and next to them.
EdgeCoefficients ==
    {Val(k) : k \in {0 - RScale, -501, -500, -499, 0, 499, 500, 501, RScale}}
    \cup {NaNStat}

CoefficientLists ==
    {<<Val(k)>> : k \in (0 - RScale)..RScale}
    \cup (SeqsUpTo(EdgeCoefficients, MaxSchools) \ {<<>>})

InitInsights ==
    /\ data = NoDataset
    /\ Idle("off")
    /\ NotClassified(NaNStat)
    /\ columns = <<>>
    /\ keywords = <<>>
    /\ found_columns = <<>>
    /\ rpc = "off"
    /\ NoRun

\* Lines 937-941 and 974 on one per-school table.
SizeCategories ==
    /\ view = "off"
    /\ \E tab \in SizeTables :
          /\ medias_por_escola' = WithTamanho(tab)
          /\ dist_tamanho' = value_counts(WithTamanho(tab))
    /\ view' = "tamanho"
    /\ UNCHANGED <<data, outcome, coluna_escola, colunas_desempenho, data_clean,
                   initial_count, final_count, removed_count, estatisticas_escolas,
                   medias_por_escola_columns, min_alunos, escolas_filtradas,
                   estatisticas_filtradas, csv, resumo, resumo_correlacoes,
                   recomendacao, ui, rvars, cvars, svars>>

\* Lines 1212 and 1224-1246 on one list of coefficients.
Insights ==
    /\ view = "off"
    /\ \E rs \in CoefficientLists :
          /\ resumo_correlacoes' =
                [m \in 1..Len(rs) |->
                    [Metrica |-> SchoolNames[m],
                     correlacao |-> rs[m],
                     Interpretacao |-> interpretar_correlacao_simples(rs[m]),
                     Forca |-> classificar_forca_correlacao(rs[m])]]
          /\ recomendacao' = Recomendacao(rs)
    /\ view' = "insights"
    /\ UNCHANGED <<data, outcome, coluna_escola, colunas_desempenho, data_clean,
                   initial_count, final_count, removed_count, estatisticas_escolas,
                   medias_por_escola, medias_por_escola_columns, min_alunos,
                   escolas_filtradas, estatisticas_filtradas, csv, resumo,
                   dist_tamanho, ui, rvars, cvars, svars>>

NextInsights ==
    \/ SizeCategories
    \/ Insights

SpecInsights == InitInsights /\ [][NextInsights]_vars

----------------------------------------------------------------------------
(* The datasets of the model.  One has the four columns of the survey files *)
(* (every role is found by keyword in school_statistics), the other two     *)
(* columns that no keyword of school_statistics matches.  The rows are up   *)
(* to MaxRows rows of a pool that holds three schools, a missing school,  *)
(* an unparsable and a missing score, and scores whose group means differ   *)
(* only past the second decimal.  Rows are taken in pool order: no          *)
(* aggregation of the program depends on the order of the rows.  Two more   *)
(* sheets have fixed rows: one where only the school role is found by       *)
(* keyword, one where a metric column's name ends with another's.           *)

ColEscola == <<"E", "s", "c", "o", "l", "a">>

ColNotaLP == <<"N", "O", "T", "A", " ", "L", "P">>

ColNotaMAT == <<"N", "O", "T", "A", " ", "M", "A", "T">>

ColUnidade == <<"U", "n", "i", "d", "a", "d", "e">>

ColAcertos == <<"A", "c", "e", "r", "t", "o", "s">>

ColsSurvey == <<ColEscola, ColTotalDePontos, ColNotaLP, ColNotaMAT>>

ColsPlain == <<ColUnidade, ColAcertos>>

ColLP == <<"L", "P">>

ColTotalLP == <<"T", "o", "t", "a", "l", " ", "L", "P">>

\* A sheet with a school column and no column of points by name.
ColsHalf == <<ColEscola, ColUnidade, ColAcertos>>

\* A sheet whose total column is named after the LP column.
ColsSuffix == <<ColEscola, ColLP, ColTotalLP, ColNotaMAT>>

RowPool ==
    << << <<"A">>, <<"1", "0">>, <<"2">>, <<"3">> >>,
       << <<"A">>, <<"2", "0">>, <<"4">>, <<"3">> >>,
       << <<"B">>, <<"a", "b", "c">>, <<"4">>, <<"5">> >>,
       << <<"A">>, <<"3", "0">>, <<"6">>, <<"x">> >>,
       << <<"A">>, <<"5">>, <<"2">>, <<"1">> >>,
       << <<"B">>, <<"5">>, <<>>, <<"2">> >>,
       << <<"B">>, <<"5", ".", "0", "1">>, <<"2">>, <<"2">> >>,
       << <<>>, <<"2", "0">>, <<"1">>, <<"1">> >>,
       << <<"A">>, <<>>, <<"3">>, <<"4">> >>,
       << <<"C">>, <<"5", ".", "0", "1">>, <<"4">>, <<"1">> >> >>

\* The row lists: up to MaxRows distinct pool rows, in pool order.
RowPicks ==
    {p \in SeqsUpTo(1..Len(RowPool), MaxRows) :
        \A i \in 1..(Len(p) - 1) : p[i] < p[i + 1]}

Datasets ==
    {[cols |-> ColsSurvey, rows |-> [i \in 1..Len(p) |-> RowPool[p[i]]]] :
        p \in RowPicks}
    \cup
    {[cols |-> ColsPlain,
      rows |-> [i \in 1..Len(p) |-> SubSeq(RowPool[p[i]], 1, 2)]] :
        p \in RowPicks}
    \cup
    {[cols |-> ColsHalf,
      rows |-> <<SubSeq(RowPool[1], 1, 3), SubSeq(RowPool[2], 1, 3),
                 SubSeq(RowPool[7], 1, 3)>>],
     [cols |-> ColsSuffix, rows |-> <<RowPool[1], RowPool[7]>>],
     [cols |-> ColsSuffix,
      rows |-> <<RowPool[1], RowPool[3], RowPool[7], RowPool[10]>>]}

Init ==
    /\ data \in Datasets
    /\ Idle("idle")
    /\ columns = <<>>
    /\ keywords = <<>>
    /\ found_columns = <<>>
    /\ rpc = "off"
    /\ NotClassified(NaNStat)
    /\ NoRun

Next ==
    \/ SchoolStatistics
    \/ ColumnAnalysis
    \/ CorrelationAnalysis

Spec == Init /\ [][Next]_vars

----------------------------------------------------------------------------
(* The script, lines 1320-1391: the radio, the two loads, and the two tabs  *)
(* that call the analysis function of the selected type on each dataset.   *)

AnalysisTypes ==
    {"Informacoes Basicas", "Estatisticas por Escola", "Analise por Coluna",
     "Correlacao", "Valores Ausentes", "Relatorio Completo"}

\* The files the script may find: none, or a CSV with one of four tables.
RunTables ==
    {[cols |-> ColsSurvey,
      rows |-> <<RowPool[1], RowPool[2], RowPool[7], RowPool[10]>>],
     [cols |-> ColsSurvey, rows |-> <<RowPool[3]>>],
     [cols |-> ColsSurvey, rows |-> <<RowPool[1], RowPool[3], RowPool[7]>>],
     [cols |-> ColsPlain,
      rows |-> <<SubSeq(RowPool[5], 1, 2), SubSeq(RowPool[6], 1, 2),
                 SubSeq(RowPool[7], 1, 2)>>]}

RunFiles ==
    {[status |-> "missing", table |-> NoDataset]}
    \cup {[status |-> "ok", table |-> t] : t \in RunTables}

\* Lines 24-30: pd.read_csv, or st.error and None when it raises.
load_data(file) ==
    IF file.status = "ok"
    THEN [data |-> file.table, shown |-> <<>>]
    ELSE [data |-> None, shown |-> <<"error_carregar_arquivo">>]

\* The test made with `or`.
EitherLoaded(d3, d9) == d3 # None \/ d9 # None

\* Line 1331: `dados_3anos is not None and dados_9anos is not None`.
BothLoaded(d3, d9) == d3 # None /\ d9 # None

\* A call that raises before it renders anything of its own.
Raises(fn) ==
    Left(fn, "raised", <<>>, <<>>, <<>>, 0, 0, <<>>, 0, {}, <<>>, <<>>, <<>>)

\* Lines 33-52: basic_statistics renders counts, dtypes and a sample.
BasicRun(d) ==
    Left("basic", "rendered", <<>>, <<>>, <<>>, Len(d.rows), Len(d.rows),
         <<>>, 0, {}, <<>>, <<>>,
         <<"header", "informacoes_gerais", "tipos_de_dados", "amostra">>)

\* Lines 1337-1348 and 1351-1362: the call of a tab, every way it can end.
\* missing_values_analysis and export_report are defined nowhere: the call
\* raises NameError.  A function given None raises on its first use of it.
Dispatch(tipo, d) ==
    IF d = None THEN {Raises("none")}
    ELSE CASE tipo = "Informacoes Basicas" -> {BasicRun(d)}
           [] tipo = "Estatisticas por Escola" ->
                 UNION {SchoolRun(d, sel) : sel \in SchoolSelections(d)}
           [] tipo = "Analise por Coluna" ->
                 {ColumnRun(d, sel) : sel \in ColumnSelections(d)}
           [] tipo = "Correlacao" ->
                 {CorrelationRun(d, sel) : sel \in CorrelationSelections(d)}
           [] tipo = "Valores Ausentes" -> {Raises("missing_values_analysis")}
           [] tipo = "Relatorio Completo" -> {Raises("export_report")}

InitRun ==
    /\ analysis_type \in AnalysisTypes
    /\ arquivos \in [a3 : RunFiles, a9 : RunFiles]
    /\ dados_3anos = None
    /\ dados_9anos = None
    /\ runpc = "load_3anos"
    /\ chamadas = <<>>
    /\ page = <<>>
    /\ data = NoDataset
    /\ Idle("idle")
    /\ NotClassified(NaNStat)
    /\ columns = <<>>
    /\ keywords = <<>>
    /\ found_columns = <<>>
    /\ rpc = "off"

\* Line 1327.
LoadDados3anos ==
    /\ runpc = "load_3anos"
    /\ dados_3anos' = load_data(arquivos.a3).data
    /\ page' = page \o load_data(arquivos.a3).shown
    /\ runpc' = "load_9anos"
    /\ UNCHANGED <<analysis_type, arquivos, dados_9anos, chamadas, rvars, avars, cvars>>

\* Lines 1328-1331: the second load and the test of both datasets.
LoadDados9anos ==
    /\ runpc = "load_9anos"
    /\ dados_9anos' = load_data(arquivos.a9).data
    /\ page' = page \o load_data(arquivos.a9).shown
    /\ runpc' = IF BothLoaded(dados_3anos, dados_9anos') THEN "tab1" ELSE "else"
    /\ UNCHANGED <<analysis_type, arquivos, dados_3anos, chamadas, rvars, avars, cvars>>

\* Lines 1384-1391: the error and the instructions; nothing else runs.
LoadFailed ==
    /\ runpc = "else"
    /\ page' = page \o <<"error_nao_foi_possivel_carregar", "info_certifique_se">>
    /\ runpc' = "done"
    /\ UNCHANGED <<analysis_type, arquivos, dados_3anos, dados_9anos, chamadas,
                   rvars, avars, cvars>>

\* The call of tab n on dataset d: an exception that leaves the function
\* ends the script run, which shows it in place of the rest of the page.
TabCall(n, d, next) ==
    \E res \in Dispatch(analysis_type, d) :
        /\ Show(res)
        /\ data' = OriginalAfter(d, res)
        /\ dados_3anos' = IF n = 1 THEN OriginalAfter(d, res) ELSE dados_3anos
        /\ dados_9anos' = IF n = 2 THEN OriginalAfter(d, res) ELSE dados_9anos
        /\ chamadas' = Append(chamadas, [tab |-> n, fn |-> res.view,
                                         outcome |-> res.outcome])
        /\ page' = page \o (IF res.outcome = "raised"
                            THEN <<"tabs", "exception">> ELSE <<"tabs">>)
        /\ runpc' = IF res.outcome = "raised" THEN "aborted" ELSE next
        /\ UNCHANGED <<analysis_type, arquivos, rvars, cvars>>

\* Lines 1334-1348.
Tab1 == runpc = "tab1" /\ TabCall(1, dados_3anos, "tab2")

\* Lines 1350-1362.
Tab2 == runpc = "tab2" /\ TabCall(2, dados_9anos, "comparacao")

\* Lines 1365-1382: the comparison, when its checkbox is ticked.
Comparacao ==
    /\ runpc = "comparacao"
    /\ \E ticked \in BOOLEAN :
          page' = page \o (IF ticked THEN <<"comparacao">> ELSE <<>>)
    /\ runpc' = "done"
    /\ UNCHANGED <<analysis_type, arquivos, dados_3anos, dados_9anos, chamadas,
                   rvars, avars, cvars>>

NextRun ==
    \/ LoadDados3anos
    \/ LoadDados9anos
    \/ LoadFailed
    \/ Tab1
    \/ Tab2
    \/ Comparacao

SpecRun == InitRun /\ [][NextRun]_vars

----------------------------------------------------------------------------
(* C1 *)

\* The column name, lowered, contains the lowered form of some keyword.
MatchesSomeKeyword(col, kws) ==
    \E k \in 1..Len(kws) :
        \E off \in 0..(Len(col) - Len(kws[k])) :
            \A j \in 1..Len(kws[k]) :
                LowerChar(col[off + j]) = LowerChar(kws[k][j])

MatchingIndexes(cols, kws) ==
    {i \in 1..Len(cols) : MatchesSomeKeyword(cols[i], kws)}

\* C1: find_similar_columns returns exactly the columns whose lowered name
\* contains the lowered form of at least one keyword, in the original column
\* order and each once; so its element 0 is the first matching column,
\* whatever the letter case of the names and the keywords.
C1_ResolverExactFirstMatch ==
    rpc = "returned" =>
        LET M == MatchingIndexes(columns, keywords) IN
        /\ Len(found_columns) = Cardinality(M)
        /\ \A n \in 1..Len(found_columns) :
              \E i \in M :
                 /\ found_columns[n] = columns[i]
                 /\ Cardinality({j \in M : j < i}) = n - 1
        /\ M # {} =>
              found_columns[1] = columns[CHOOSE i \in M : \A j \in M : i <= j]

\* The scenario of the specification for the TotalScore role, with a
\* capitalised keyword.
C1_Witness ==
    /\ rpc = "returned"
    /\ columns = <<ColQualASuaEscola, ColTotalDePontos>>
    /\ keywords = <<KwTotalCap, KwPontos>>
    /\ found_columns = <<ColTotalDePontos>>

----------------------------------------------------------------------------
(* What the properties of the analyses read off a state. *)

\* The cleaning step ran (the call got past the column selection).
CleaningRan == outcome \in {"no_valid_data", "rendered", "caught"}

\* The selected columns: the grouping column, then the metric columns.
Selected == <<coluna_escola>> \o colunas_desempenho

\* The CSV cell of row r in the column of that name.
CellText(r, name) ==
    data.rows[r][CHOOSE c \in 1..Len(data.cols) : data.cols[c] = name]

\* Row r of the dataset has a grouping value and, in every metric column, a
\* value that is a number.
RowValid(r) ==
    /\ CellText(r, coluna_escola) # <<>>
    /\ \A m \in 1..Len(colunas_desempenho) :
          LET t == CellText(r, colunas_desempenho[m]) IN
          t # <<>> /\ IsNumeral(t)

CleanIdx == {data_clean[i].idx : i \in 1..Len(data_clean)}

\* The rows of the cleaned frame that belong to a group.
GroupRows(label) == {j \in 1..Len(data_clean) : data_clean[j].vals[1] = label}

\* The sum of column c over the rows J of the cleaned frame.
RECURSIVE SumOverRows(_, _)
SumOverRows(J, c) ==
    IF J = {} THEN 0
    ELSE LET j == CHOOSE x \in J : TRUE
         IN  data_clean[j].vals[c].v + SumOverRows(J \ {j}, c)

\* The sum over the rows J of (n * value - S)^2 in column c.
RECURSIVE SumDevSq(_, _, _, _)
SumDevSq(J, c, n, S) ==
    IF J = {} THEN 0
    ELSE LET j == CHOOSE x \in J : TRUE
             d == n * data_clean[j].vals[c].v - S
         IN  d * d + SumDevSq(J \ {j}, c, n, S)

GroupSum(label, c) == SumOverRows(GroupRows(label), c)

GroupSize(label) == Cardinality(GroupRows(label))

\* v (in hundredths) is the sample standard deviation of the group's values
\* in column c, to the nearest hundredth: with n values of sum S, the
\* variance is sum((n*x - S)^2) / (n*n*(n-1)).
IsSampleStd(label, c, v) ==
    LET n == GroupSize(label)
        S == GroupSum(label, c)
        dev2 == SumDevSq(GroupRows(label), c, n, S)
        den == n * n * (n - 1)
    IN  /\ v >= 0
        /\ v > 0 => (2 * v - 1) * (2 * v - 1) * den <= 4 * dev2
        /\ 4 * dev2 <= (2 * v + 1) * (2 * v + 1) * den

\* The steps of a view that come after its cleaning.
LaterSteps ==
    {"groupby_agg", "stats_table", "charts", "summary", "correlation",
     "resumo_table", "insights", "download_button", "error_exception"}

----------------------------------------------------------------------------
(* C2 *)

\* C2: after the cleaning step of any of the three analyses every remaining
\* row has a value in the grouping column and in every selected metric
\* column, and the counts reported satisfy after + removed = before, with
\* "removed" the number of rows of the dataset that were dropped.
C2_CleanedRowsComplete ==
    CleaningRan =>
        /\ \A i \in 1..Len(data_clean) :
              /\ data_clean[i].idx \in 1..Len(data.rows)
              /\ \A c \in 1..Len(Selected) :
                    /\ data_clean[i].vals[c].k # "nan"
                    /\ CellText(data_clean[i].idx, Selected[c]) # <<>>
        /\ \A i, j \in 1..Len(data_clean) :
              i < j => data_clean[i].idx < data_clean[j].idx
        /\ final_count = Len(data_clean)
        /\ view \in {"school", "correlation"} => initial_count = Len(data.rows)
        /\ view = "school" =>
              /\ removed_count = Cardinality((1..Len(data.rows)) \ CleanIdx)
              /\ final_count + removed_count = initial_count

C2_Witness ==
    /\ view = "school"
    /\ outcome = "rendered"
    /\ initial_count = 4
    /\ removed_count = 2
    /\ final_count = 2

----------------------------------------------------------------------------
(* C3 *)

\* C3: cleaning does not raise on an unparsable metric value (a call with
\* distinct columns never ends in an exception): the value becomes missing,
\* and the rows removed are exactly those with a missing grouping value or a
\* missing or unparsable value in some metric column; the metric values kept
\* are the numbers their texts denote.
C3_CoercionRemovesExactlyInvalidRows ==
    /\ view # "idle" /\ view # "off" /\ ~HasDuplicates(Selected)
       /\ medias_por_escola_columns = <<>>
          => outcome # "raised"
    /\ CleaningRan =>
          /\ CleanIdx = {r \in 1..Len(data.rows) : RowValid(r)}
          /\ \A i \in 1..Len(data_clean) :
                \A m \in 1..Len(colunas_desempenho) :
                    data_clean[i].vals[m + 1] =
                        Num(NumeralValue(CellText(data_clean[i].idx,
                                                  colunas_desempenho[m])))

\* The scenario of the specification: scores "10", "20", "abc", "30".
C3_Witness ==
    /\ view = "school"
    /\ data.cols = ColsSurvey
    /\ data.rows = <<RowPool[1], RowPool[2], RowPool[3], RowPool[4]>>
    /\ initial_count = 4
    /\ final_count = 3
    /\ removed_count = 1

----------------------------------------------------------------------------
(* C4 *)

\* C4: in each of the three analyses, when cleaning leaves no row the call
\* reports 'no valid data' once, as its last element, and runs none of the
\* later steps: no aggregation, table, chart, summary, correlation or
\* export, and no table or CSV exists.
C4_NoValidDataEndsView ==
    /\ CleaningRan /\ data_clean = <<>> => outcome = "no_valid_data"
    /\ outcome = "no_valid_data" =>
          /\ data_clean = <<>>
          /\ ui[Len(ui)] = "error_no_valid_data"
          /\ Cardinality({i \in 1..Len(ui) : ui[i] = "error_no_valid_data"}) = 1
          /\ \A i \in 1..Len(ui) : ui[i] \notin LaterSteps
          /\ estatisticas_escolas = <<>>
          /\ medias_por_escola = <<>>
          /\ estatisticas_filtradas = <<>>
          /\ csv = <<>>

C4_Witness ==
    /\ view = "correlation"
    /\ outcome = "no_valid_data"
    /\ initial_count = 3
    /\ final_count = 0

----------------------------------------------------------------------------
(* C5 *)

\* C5: every row of a per-group statistics table has a count of at least 1,
\* the count being the number of cleaned rows of the group, and the groups
\* of the table are exactly the group values of the cleaned rows, each once.
C5_GroupsHaveRows ==
    outcome = "rendered" =>
        /\ view = "school" =>
              /\ \A i \in 1..Len(estatisticas_escolas) :
                    /\ estatisticas_escolas[i].Quantidade_Alunos >= 1
                    /\ estatisticas_escolas[i].Quantidade_Alunos =
                          GroupSize(estatisticas_escolas[i].escola)
              /\ {estatisticas_escolas[i].escola : i \in 1..Len(estatisticas_escolas)}
                    = {data_clean[j].vals[1] : j \in 1..Len(data_clean)}
              /\ \A i, j \in 1..Len(estatisticas_escolas) :
                    estatisticas_escolas[i].escola = estatisticas_escolas[j].escola
                        => i = j
        /\ view = "column" =>
              /\ \A i \in 1..Len(estatisticas_escolas) :
                    \A m \in 1..Len(colunas_desempenho) :
                        /\ estatisticas_escolas[i].stats[m].count >= 1
                        /\ estatisticas_escolas[i].stats[m].count =
                              GroupSize(estatisticas_escolas[i].escola)
              /\ {estatisticas_escolas[i].escola : i \in 1..Len(estatisticas_escolas)}
                    = {data_clean[j].vals[1] : j \in 1..Len(data_clean)}
        /\ view = "correlation" =>
              /\ \A i \in 1..Len(medias_por_escola) :
                    /\ medias_por_escola[i].Quantidade_Alunos >= 1
                    /\ medias_por_escola[i].Quantidade_Alunos =
                          GroupSize(medias_por_escola[i].Escola)
              /\ {medias_por_escola[i].Escola : i \in 1..Len(medias_por_escola)}
                    = {data_clean[j].vals[1] : j \in 1..Len(data_clean)}
              /\ \A i, j \in 1..Len(medias_por_escola) :
                    medias_por_escola[i].Escola = medias_por_escola[j].Escola
                        => i = j

\* School B has rows in the dataset, none of them valid, and is not emitted.
C5_Witness ==
    /\ view = "school"
    /\ outcome = "rendered"
    /\ \E r \in 1..Len(data.rows) : CellText(r, coluna_escola) = <<"B">>
    /\ Len(estatisticas_escolas) = 1
    /\ estatisticas_escolas[1].escola = Str(<<"A">>)
    /\ estatisticas_escolas[1].Quantidade_Alunos = 3

----------------------------------------------------------------------------
(* C6 *)

\* C6: in every row of the per-school table of school_statistics, with the
\* values as stored (rounded to 2 decimals), Mínimo <= Mediana <= Máximo and
\* Mínimo <= Média <= Máximo.
C6_MinMedianMeanMax ==
    view = "school" /\ outcome = "rendered" =>
        \A i \in 1..Len(estatisticas_escolas) :
            LET row == estatisticas_escolas[i] IN
            /\ ~row.Minimo.nan /\ ~row.Maximo.nan
            /\ ~row.Media.nan /\ ~row.Mediana.nan
            /\ row.Minimo.v <= row.Mediana.v
            /\ row.Mediana.v <= row.Maximo.v
            /\ row.Minimo.v <= row.Media.v
            /\ row.Media.v <= row.Maximo.v

\* A school with an even number of scores whose median, mean, minimum and
\* maximum all differ.
C6_Witness ==
    /\ view = "school"
    /\ outcome = "rendered"
    /\ \E i \in 1..Len(estatisticas_escolas) :
          LET row == estatisticas_escolas[i] IN
          /\ row.Quantidade_Alunos = 4
          /\ row.Minimo.v < row.Mediana.v
          /\ row.Mediana.v < row.Media.v
          /\ row.Media.v < row.Maximo.v

----------------------------------------------------------------------------
(* C7 *)

\* C7: in the per-group tables of school_statistics and column_analysis the
\* standard deviation of a group is missing exactly when the group's count
\* is 1, and for a count of 2 or more it is the sample standard deviation
\* (denominator n - 1) of the group's values, to 2 decimals.
C7_SampleStd ==
    outcome = "rendered" =>
        /\ view = "school" =>
              \A i \in 1..Len(estatisticas_escolas) :
                  LET row == estatisticas_escolas[i] IN
                  /\ row.Desvio_Padrao.nan <=> row.Quantidade_Alunos = 1
                  /\ row.Quantidade_Alunos >= 2 =>
                        IsSampleStd(row.escola, 2, row.Desvio_Padrao.v)
        /\ view = "column" =>
              \A i \in 1..Len(estatisticas_escolas) :
                  \A m \in 1..Len(colunas_desempenho) :
                      LET row == estatisticas_escolas[i] IN
                      /\ row.stats[m].std.nan <=> row.stats[m].count = 1
                      /\ row.stats[m].count >= 2 =>
                            IsSampleStd(row.escola, m + 1, row.stats[m].std.v)

\* The scenario of the specification: group A has 10, 20, 30 (mean 20,
\* median 20, standard deviation 10), group B has 5 (mean 5, no standard
\* deviation).
C7_Witness ==
    /\ view = "school"
    /\ outcome = "rendered"
    /\ Len(estatisticas_escolas) = 2
    /\ \E i, j \in 1..2 :
          /\ estatisticas_escolas[i].escola = Str(<<"A">>)
          /\ estatisticas_escolas[i].Quantidade_Alunos = 3
          /\ estatisticas_escolas[i].Media = Val(2000)
          /\ estatisticas_escolas[i].Mediana = Val(2000)
          /\ estatisticas_escolas[i].Desvio_Padrao = Val(1000)
          /\ estatisticas_escolas[j].escola = Str(<<"B">>)
          /\ estatisticas_escolas[j].Quantidade_Alunos = 1
          /\ estatisticas_escolas[j].Media = Val(500)
          /\ estatisticas_escolas[j].Desvio_Padrao = NaNStat

----------------------------------------------------------------------------
(* C8 *)

\* The full-precision mean of the primary metric of group a is at least
\* that of group b.
TrueMeanGE(a, b) ==
    GroupSum(a, 2) * GroupSize(b) >= GroupSum(b, 2) * GroupSize(a)

\* C8: the per-group table handed to the display and the export (of
\* school_statistics and of column_analysis) is in descending order of the
\* full-precision group mean of the primary metric.
C8_SortedByTrueMeanDesc ==
    outcome = "rendered" /\ view \in {"school", "column"} =>
        \A i \in 1..(Len(estatisticas_escolas) - 1) :
            TrueMeanGE(estatisticas_escolas[i].escola,
                       estatisticas_escolas[i + 1].escola)

----------------------------------------------------------------------------
(* C9 *)

\* C9: rounding is for display only; what the later steps of
\* school_statistics work on (the table that is sorted, filtered and
\* exported) holds the full-precision mean, so that their outcome is what it
\* would be without rounding.
C9_FullPrecisionRetained ==
    view = "school" /\ outcome = "rendered" =>
        /\ \A i \in 1..Len(csv) :
              csv[i].Media.v * GroupSize(csv[i].escola)
                  = GroupSum(csv[i].escola, 2)
        /\ \A i \in 1..(Len(csv) - 1) :
              TrueMeanGE(csv[i].escola, csv[i + 1].escola)

----------------------------------------------------------------------------
(* C10 *)

\* Row i of the per-school table passes the filter as C10 states it.
KeepInAllowList(i) ==
    /\ estatisticas_escolas[i].Quantidade_Alunos >= min_alunos
    /\ estatisticas_escolas[i].escola \in escolas_filtradas

\* Row i passes the filter: an empty allow-list admits every school.
KeepByFilter(i) ==
    /\ estatisticas_escolas[i].Quantidade_Alunos >= min_alunos
    /\ escolas_filtradas = {} \/ estatisticas_escolas[i].escola \in escolas_filtradas

\* t holds exactly the rows of the per-school table that Keep admits, in the
\* order of the table.
IsSelection(t, Keep(_)) ==
    LET K == {i \in 1..Len(estatisticas_escolas) : Keep(i)} IN
    /\ Len(t) = Cardinality(K)
    /\ \A n \in 1..Len(t) :
          \E i \in K :
             /\ t[n] = estatisticas_escolas[i]
             /\ Cardinality({j \in K : j < i}) = n - 1

RowsOf(t) == {t[i] : i \in 1..Len(t)}

\* C10 as stated: the filtered table holds exactly the rows with
\* Quantidade_Alunos >= the minimum and a label in the allow-list, and does
\* not grow when a label is taken off the allow-list.
C10_FilterExactAllowList ==
    view = "school" /\ outcome = "rendered" =>
        /\ IsSelection(estatisticas_filtradas, KeepInAllowList)
        /\ \A l \in escolas_filtradas :
              RowsOf(FilterTable(estatisticas_escolas, min_alunos,
                                 escolas_filtradas \ {l}))
                  \subseteq RowsOf(estatisticas_filtradas)

\* C10 amended: the filtered table holds exactly the rows with
\* Quantidade_Alunos >= the minimum and, when the allow-list is not empty, a
\* label in it (an empty allow-list filters nothing); it is always a subset
\* of the unfiltered table, and it does not grow when a label is taken off
\* an allow-list that stays non-empty.
C10_FilterAllowListUnlessEmpty ==
    view = "school" /\ outcome = "rendered" =>
        /\ IsSelection(estatisticas_filtradas, KeepByFilter)
        /\ RowsOf(estatisticas_filtradas) \subseteq RowsOf(estatisticas_escolas)
        /\ \A l \in escolas_filtradas :
              escolas_filtradas \ {l} # {} =>
                  RowsOf(FilterTable(estatisticas_escolas, min_alunos,
                                     escolas_filtradas \ {l}))
                      \subseteq RowsOf(estatisticas_filtradas)

\* Two schools, one allowed, and a minimum that the allowed one meets.
C10_Witness ==
    /\ view = "school"
    /\ outcome = "rendered"
    /\ Len(estatisticas_escolas) = 2
    /\ Cardinality(escolas_filtradas) = 1
    /\ min_alunos = 2
    /\ Len(estatisticas_filtradas) = 1

----------------------------------------------------------------------------
(* C11 *)

\* C11: for every setting of the minimum-count and allow-list filters of
\* school_statistics the unfiltered per-school table is, after the filter,
\* the table the aggregation and the sort produced (same rows, order and
\* values), and 'Total de Escolas' and 'Total de Alunos' are the number of
\* its rows and the sum of its counts.
C11_FilterLeavesTableUnchanged ==
    view = "school" /\ outcome = "rendered" =>
        /\ estatisticas_escolas \in SortByMediaDesc(SchoolAgg(data_clean))
        /\ resumo.Total_de_Escolas = Len(estatisticas_escolas)
        /\ resumo.Total_de_Escolas =
              Cardinality({data_clean[j].vals[1] : j \in 1..Len(data_clean)})
        /\ resumo.Total_de_Alunos = Len(data_clean)
        /\ resumo.escolas_filtradas = Len(estatisticas_filtradas)

\* The filter removed a school, and the totals still count both.
C11_Witness ==
    /\ view = "school"
    /\ outcome = "rendered"
    /\ Len(estatisticas_escolas) = 2
    /\ Len(estatisticas_filtradas) = 1
    /\ resumo.Total_de_Escolas = 2
    /\ resumo.Total_de_Alunos = 4
    /\ resumo.alunos_filtrados = 3

----------------------------------------------------------------------------
(* C12 *)

\* C12: the CSV of the download button holds exactly the rows of the table
\* the view displays: in school_statistics the filtered table, in
\* column_analysis the grouped statistics table of the branch that ran.
C12_CsvIsDisplayedTable ==
    outcome = "rendered" =>
        /\ view = "school" => csv = estatisticas_filtradas
        /\ view = "column" => csv = estatisticas_escolas

----------------------------------------------------------------------------
(* C13 *)

\* |r| in thousandths.
AbsR == IF correlacao.v < 0 THEN 0 - correlacao.v ELSE correlacao.v

\* The classifiers ran on an r of [-1, 1].
ClassifiedInRange ==
    forca # "" /\ ~correlacao.nan /\ AbsR <= RScale

\* C13: for every r of [-1, 1] classificar_forca_correlacao returns Forte
\* iff |r| >= 0.7, Moderada iff 0.5 <= |r| < 0.7, Fraca iff 0.3 <= |r| < 0.5
\* and Muito Fraca iff |r| < 0.3; the result is one of these four.
C13_StrengthThresholds ==
    ClassifiedInRange =>
        /\ forca \in {"Forte", "Moderada", "Fraca", "Muito Fraca"}
        /\ forca = "Forte" <=> 10 * AbsR >= 7 * RScale
        /\ forca = "Moderada" <=> 10 * AbsR >= 5 * RScale /\ 10 * AbsR < 7 * RScale
        /\ forca = "Fraca" <=> 10 * AbsR >= 3 * RScale /\ 10 * AbsR < 5 * RScale
        /\ forca = "Muito Fraca" <=> 10 * AbsR < 3 * RScale

\* r = -0.7, on a threshold and negative, is Forte.
C13_Witness ==
    /\ correlacao = Val(-700)
    /\ forca = "Forte"

----------------------------------------------------------------------------
(* C14 *)

PositiveLabels ==
    {"Correlacao positiva forte", "Correlacao positiva moderada",
     "Correlacao positiva fraca"}

NegativeLabels ==
    {"Correlacao negativa forte", "Correlacao negativa moderada",
     "Correlacao negativa fraca"}

\* The label a detailed interpretation starts with.
LabelOf(text) ==
    CHOOSE l \in PositiveLabels \cup NegativeLabels \cup {"Correlacao muito fraca ou nula"} :
        \/ text = l
        \/ text = interpretar_correlacao_detalhada(Val(700)) /\ l = "Correlacao positiva forte"
        \/ text = interpretar_correlacao_detalhada(Val(500)) /\ l = "Correlacao positiva moderada"
        \/ text = interpretar_correlacao_detalhada(Val(300)) /\ l = "Correlacao positiva fraca"
        \/ text = interpretar_correlacao_detalhada(Val(0)) /\ l = "Correlacao muito fraca ou nula"
        \/ text = interpretar_correlacao_detalhada(Val(-300)) /\ l = "Correlacao negativa fraca"
        \/ text = interpretar_correlacao_detalhada(Val(-500)) /\ l = "Correlacao negativa moderada"
        \/ text = interpretar_correlacao_detalhada(Val(-700)) /\ l = "Correlacao negativa forte"

\* C14: for every r of [-1, 1] the interpretation is 'positiva' exactly for
\* r >= 0.3 and 'negativa' exactly for r <= -0.3, and every r strictly
\* between -0.3 and 0.3 is 'muito fraca ou nula' whatever its sign; the
\* detailed interpretation carries the same label.
C14_DirectionThresholds ==
    ClassifiedInRange =>
        /\ interpretacao \in PositiveLabels <=> 10 * correlacao.v >= 3 * RScale
        /\ interpretacao \in NegativeLabels <=> 10 * correlacao.v <= 0 - 3 * RScale
        /\ interpretacao = "Correlacao muito fraca ou nula" <=>
              10 * AbsR < 3 * RScale
        /\ interpretacao \in PositiveLabels => correlacao.v > 0
        /\ interpretacao \in NegativeLabels => correlacao.v < 0
        /\ LabelOf(detalhada) = interpretacao

\* r = -0.3, on the threshold, is reported as a weak negative correlation.
C14_Witness ==
    /\ correlacao = Val(-300)
    /\ interpretacao = "Correlacao negativa fraca"
    /\ detalhada = interpretar_correlacao_detalhada(Val(-400))

----------------------------------------------------------------------------
(* What the properties of the coefficient read off a state. *)

CorrelationRendered == view = "correlation" /\ outcome = "rendered"

\* The schools of the cleaned frame, in some order.
RECURSIVE SetToSeq(_)
SetToSeq(S) ==
    IF S = {} THEN <<>>
    ELSE LET x == CHOOSE y \in S : TRUE IN <<x>> \o SetToSeq(S \ {x})

CleanSchools == SetToSeq({data_clean[j].vals[1] : j \in 1..Len(data_clean)})

\* The sizes of the schools.
SchoolSizes == [i \in 1..Len(CleanSchools) |-> GroupSize(CleanSchools[i])]

RECURSIVE Product(_)
Product(vs) == IF vs = <<>> THEN 1 ELSE Head(vs) * Product(Tail(vs))

\* The full-precision means of metric m of the schools, all multiplied by
\* the product of the sizes and taken relative to the smallest of them.
SchoolMeans(m) ==
    LET raw == [i \in 1..Len(CleanSchools) |->
                   GroupSum(CleanSchools[i], m + 1)
                       * (Product(SchoolSizes) \div SchoolSizes[i])]
        lo == MinOf({raw[i] : i \in 1..Len(raw)})
    IN  [i \in 1..Len(raw) |-> raw[i] - lo]

\* G * sum(u * v) - sum(u) * sum(v): G * G times the covariance of u and v.
CoMoment(u, v) ==
    Len(u) * SumSeq([i \in 1..Len(u) |-> u[i] * v[i]]) - SumSeq(u) * SumSeq(v)

\* a/b <= c/d for a, c >= 0 and b, d > 0, without multiplying.
RECURSIVE FracLE(_, _, _, _)
FracLE(a, b, c, d) ==
    IF a \div b # c \div d THEN a \div b < c \div d
    ELSE IF a % b = 0 THEN TRUE
    ELSE IF c % d = 0 THEN FALSE
    ELSE FracLE(d, c % d, b, a % b)

\* rv (thousandths) is the Pearson coefficient of the sequences u and v to
\* the nearest thousandth: its sign is that of the covariance and
\* (2|rv| - 1)^2 / 4000000 <= cov^2 / (var(u) var(v)) <= (2|rv| + 1)^2 / 4000000.
IsPearson(rv, u, v) ==
    LET N == CoMoment(u, v)
        d == CoMoment(u, u) * CoMoment(v, v)
        k == IF rv < 0 THEN 0 - rv ELSE rv
    IN  /\ rv > 0 => N > 0
        /\ rv < 0 => N < 0
        /\ k > 0 => FracLE((2 * k - 1) * (2 * k - 1), 4 * RScale * RScale, N * N, d)
        /\ FracLE(N * N, d, (2 * k + 1) * (2 * k + 1), 4 * RScale * RScale)

----------------------------------------------------------------------------
(* C15 *)

\* C15: correlation_analysis computes, displays and classifies a coefficient
\* only when the per-school table has at least two schools.
C15_CoefficientNeedsTwoGroups ==
    CorrelationRendered /\ Len(medias_por_escola) < 2 =>
        /\ resumo_correlacoes = <<>>
        /\ \A i \in 1..Len(ui) : ui[i] \notin {"correlation", "resumo_table"}

----------------------------------------------------------------------------
(* C16 *)

\* C16: the coefficient reported for a metric is the Pearson correlation,
\* to 3 decimals, of the sequence of school sizes and the sequence of
\* full-precision school means of the metric, with one point per school of
\* the cleaned frame; it is missing exactly when the sizes or the means do
\* not vary.
C16_PearsonOfSizesAndMeans ==
    CorrelationRendered =>
        /\ Len(medias_por_escola) = Len(CleanSchools)
        /\ Len(resumo_correlacoes) = Len(colunas_desempenho)
        /\ \A m \in 1..Len(resumo_correlacoes) :
              LET r == resumo_correlacoes[m].correlacao
                  x == SchoolSizes
                  y == SchoolMeans(m)
              IN  /\ r.nan <=> CoMoment(x, x) = 0 \/ CoMoment(y, y) = 0
                  /\ ~r.nan => IsPearson(r.v, x, y)

\* Three schools of sizes 2, 1, 1 with means 3, 2, 1 of the third metric:
\* r = sqrt(3)/2 = 0.866.
C16_Witness ==
    /\ CorrelationRendered
    /\ Len(data_clean) = 4
    /\ Len(medias_por_escola) = 3
    /\ resumo_correlacoes[3].correlacao = Val(866)
    /\ resumo_correlacoes[3].Forca = "Forte"

----------------------------------------------------------------------------
(* C17 *)

\* The means of metric m are an increasing affine function of the sizes,
\* and the sizes are not all equal.
AffineIncreasing(m) ==
    LET x == SchoolSizes
        y == SchoolMeans(m)
        I == 1..Len(x)
    IN  /\ \E i, j \in I : x[i] # x[j]
        /\ \A i, j \in I : x[i] < x[j] => y[i] < y[j]
        /\ \A i, j, k, l \in I :
              (y[i] - y[j]) * (x[k] - x[l]) = (y[k] - y[l]) * (x[i] - x[j])

\* C17: whenever at least two schools have distinct sizes and the school
\* means of a metric are an increasing affine function of the sizes, the
\* coefficient reported is 1.0, its strength Forte and its interpretation
\* 'Correlacao positiva forte'.
C17_AffineGivesOne ==
    CorrelationRendered =>
        \A m \in 1..Len(resumo_correlacoes) :
            AffineIncreasing(m) =>
                /\ resumo_correlacoes[m].correlacao = Val(RScale)
                /\ resumo_correlacoes[m].Forca = "Forte"
                /\ resumo_correlacoes[m].Interpretacao = "Correlacao positiva forte"

\* Three schools of sizes 2, 1, 1 whose means of the first metric are 15,
\* 5.01 and 5.01.
C17_Witness ==
    /\ CorrelationRendered
    /\ Len(medias_por_escola) = 3
    /\ Len(data_clean) = 4
    /\ AffineIncreasing(1)
    /\ resumo_correlacoes[1].correlacao = Val(RScale)
    /\ resumo_correlacoes[1].Interpretacao = "Correlacao positiva forte"

----------------------------------------------------------------------------
(* C18 *)

\* C18: if the load of either file failed, the run shows the blocking error
\* message and calls no analysis function for either dataset, whatever the
\* analysis type; an analysis function is called only when both datasets
\* were loaded.
C18_LoadFailureBlocks ==
    /\ chamadas # <<>> =>
          /\ arquivos.a3.status = "ok" /\ arquivos.a9.status = "ok"
          /\ dados_3anos = arquivos.a3.table /\ dados_9anos = arquivos.a9.table
    /\ runpc \in {"tab1", "tab2"} =>
          arquivos.a3.status = "ok" /\ arquivos.a9.status = "ok"
    /\ runpc \in {"done", "aborted"}
       /\ (arquivos.a3.status # "ok" \/ arquivos.a9.status # "ok") =>
          /\ chamadas = <<>>
          /\ view = "idle"
          /\ runpc = "done"
          /\ \E i \in 1..Len(page) : page[i] = "error_nao_foi_possivel_carregar"
          /\ \A i \in 1..Len(page) : page[i] \notin {"tabs", "comparacao"}

\* Only the second file is missing, and the run ended on the error.
C18_Witness ==
    /\ runpc = "done"
    /\ arquivos.a3.status = "ok"
    /\ arquivos.a9.status = "missing"
    /\ analysis_type = "Estatisticas por Escola"
    /\ chamadas = <<>>
    /\ page = <<"error_carregar_arquivo", "error_nao_foi_possivel_carregar",
                "info_certifique_se">>

----------------------------------------------------------------------------
(* C19 *)

\* A role of the function that ran has no column matching its keywords.
RoleUnresolved ==
    LET none(kws) == find_similar_columns(data.cols, kws) = <<>> IN
    \/ view = "school" /\ (none(pontos_keywords) \/ none(escola_keywords))
    \/ view = "column" /\ (none(escola_keywords)
                           \/ (none(nota_lp_keywords) /\ none(nota_mat_keywords)))
    \/ view = "correlation" /\ (\/ none(corr_escola_keywords)
                                \/ none(corr_total_pontos_keywords)
                                \/ none(corr_nota_lp_keywords)
                                \/ none(corr_nota_mat_keywords))

\* C19: in every analysis function, when no column matches the keywords of a
\* required role the function takes the manually selected column and goes
\* on with the analysis; an unresolved role never ends in an exception.
C19_UnresolvedRoleNeverRaises ==
    RoleUnresolved => outcome # "raised"

----------------------------------------------------------------------------
(* C20 *)

\* C20: a failure in the view of the first dataset, for each of
\* school_statistics, column_analysis and correlation_analysis, is caught
\* inside the view (no exception leaves the function) and the view of the
\* second dataset is still executed in the same run.
C20_FailureStaysInItsView ==
    analysis_type \in {"Estatisticas por Escola", "Analise por Coluna", "Correlacao"} =>
        /\ \A i \in 1..Len(chamadas) : chamadas[i].outcome # "raised"
        /\ runpc # "aborted"
        /\ runpc = "done" /\ BothLoaded(dados_3anos, dados_9anos) =>
              /\ Len(chamadas) = 2
              /\ chamadas[2].tab = 2

----------------------------------------------------------------------------
(* C21 *)

\* C21: no analysis function modifies the dataset it receives: after the
\* calls of a run (basic_statistics, school_statistics, column_analysis or
\* correlation_analysis on each dataset) both datasets, rows, column names
\* and cell texts, are what load_data read from the files.
C21_DatasetsUnchanged ==
    /\ dados_3anos # None => dados_3anos = arquivos.a3.table
    /\ dados_9anos # None => dados_9anos = arquivos.a9.table
    /\ chamadas # <<>> =>
          data = (IF chamadas[Len(chamadas)].tab = 1
                  THEN arquivos.a3.table ELSE arquivos.a9.table)

\* Both calls were made, and the second one coerced text and dropped rows.
C21_Witness ==
    /\ runpc = "done"
    /\ Len(chamadas) = 2
    /\ chamadas[1].outcome = "rendered"
    /\ view = "correlation"
    /\ outcome = "rendered"
    /\ final_count < initial_count
    /\ Len(dados_9anos.rows) = initial_count
    /\ \E i \in 1..Len(dados_9anos.rows) : dados_9anos.rows[i][2] = <<"a", "b", "c">>

----------------------------------------------------------------------------
(* C22 *)

\* The functions the program defines with `def` (lines 33, 67, 372, 771).
DefinedAnalyses == {"basic", "school", "column", "correlation"}

\* C22: for each of the six analysis types of the radio, with both datasets
\* loaded, each tab calls a function that the program defines, the first tab
\* before the second, and the run is not ended by an unhandled error of the
\* dispatch.
C22_EveryTypeDispatchesToDefinedFunction ==
    /\ \A i \in 1..Len(chamadas) :
          /\ chamadas[i].fn \in DefinedAnalyses
          /\ chamadas[i].tab = i
    /\ analysis_type \in {"Valores Ausentes", "Relatorio Completo"} =>
          /\ runpc # "aborted"
          /\ runpc = "done" /\ BothLoaded(dados_3anos, dados_9anos) =>
                Len(chamadas) = 2

----------------------------------------------------------------------------
(* C23, C24 *)

\* The band of a label of interpretar_correlacao_simples: its sign is the
\* direction, its size the strength (3 forte, 2 moderada, 1 fraca, 0 muito
\* fraca ou nula).
SimpleBand(label) ==
    CASE label = "Correlacao positiva forte" -> 3
      [] label = "Correlacao positiva moderada" -> 2
      [] label = "Correlacao positiva fraca" -> 1
      [] label = "Correlacao muito fraca ou nula" -> 0
      [] label = "Correlacao negativa fraca" -> -1
      [] label = "Correlacao negativa moderada" -> -2
      [] label = "Correlacao negativa forte" -> -3
      [] OTHER -> 9

\* The band of a sentence of interpretar_correlacao_detalhada.
DetailedBand(text) ==
    CASE text = "Correlacao positiva forte: escolas com mais alunos tendem a ter desempenho significativamente melhor" -> 3
      [] text = "Correlacao positiva moderada: existe uma relacao positiva entre tamanho da escola e desempenho" -> 2
      [] text = "Correlacao positiva fraca: leve tendencia de escolas maiores terem melhor desempenho" -> 1
      [] text = "Correlacao muito fraca ou nula: praticamente nao ha relacao entre tamanho da escola e desempenho" -> 0
      [] text = "Correlacao negativa fraca: leve tendencia de escolas menores terem melhor desempenho" -> -1
      [] text = "Correlacao negativa moderada: escolas menores tendem a ter melhor desempenho" -> -2
      [] text = "Correlacao negativa forte: escolas com menos alunos tendem a ter desempenho significativamente melhor" -> -3
      [] OTHER -> 8

\* The band size of a value of classificar_forca_correlacao.
StrengthBand(f) ==
    CASE f = "Forte" -> 3
      [] f = "Moderada" -> 2
      [] f = "Fraca" -> 1
      [] f = "Muito Fraca" -> 0
      [] OTHER -> 7

BandSize(b) == IF b < 0 THEN 0 - b ELSE b

\* C23: interpretar_correlacao_simples answers 'Correlacao negativa forte'
\* only for r <= -0.7; an undefined coefficient (NaN) is not labelled a
\* strong negative correlation, and the strength word of its label is the
\* strength classificar_forca_correlacao returns for it.
C23_StrongNegativeOnlyBelowThreshold ==
    forca # "" =>
        /\ interpretacao = "Correlacao negativa forte" =>
              ~correlacao.nan /\ 10 * correlacao.v <= 0 - 7 * RScale
        /\ correlacao.nan =>
              BandSize(SimpleBand(interpretacao)) = StrengthBand(forca)

\* C24: for every r of [-1, 1] in thousandths the simple and the detailed
\* interpretation select the same band, and the strength word of that band
\* is the value of classificar_forca_correlacao.
C24_ClassifiersAgree ==
    ClassifiedInRange =>
        /\ SimpleBand(interpretacao) \in -3..3
        /\ DetailedBand(detalhada) = SimpleBand(interpretacao)
        /\ StrengthBand(forca) = BandSize(SimpleBand(interpretacao))

\* r = 0.7, on a threshold: all three answer the strong band.
C24_Witness ==
    /\ correlacao = Val(700)
    /\ interpretacao = "Correlacao positiva forte"
    /\ DetailedBand(detalhada) = 3
    /\ forca = "Forte"

----------------------------------------------------------------------------
(* C25 *)

\* The number of columns of the per-school table named `name`.
ColumnsNamed(name) ==
    Cardinality({i \in 1..Len(medias_por_escola_columns) :
                    medias_por_escola_columns[i] = name})

\* C25: in correlation_analysis, whatever the names of the metric columns,
\* the renamed per-school table has pairwise distinct column names, exactly
\* one column Quantidade_Alunos and, for each metric column c, exactly one
\* column Media_c.
C25_RenamedColumnsDistinct ==
    view = "correlation" /\ medias_por_escola_columns # <<>> =>
        /\ ~HasDuplicates(medias_por_escola_columns)
        /\ ColumnsNamed(NameQuantidadeAlunos) = 1
        /\ \A m \in 1..Len(colunas_desempenho) :
              ColumnsNamed(PrefixMedia \o colunas_desempenho[m]) = 1

----------------------------------------------------------------------------
(* C26 *)

\* The distinct school values among the cleaned rows.
CleanSchoolSet == {data_clean[j].vals[1] : j \in 1..Len(data_clean)}

\* C26: in school_statistics and correlation_analysis the metric 'Total de
\* Alunos', the sum of Quantidade_Alunos over the unfiltered per-school
\* table, is the number of rows left by the cleaning, and 'Total de
\* Escolas', the number of rows of that table, is the number of distinct
\* schools among the cleaned rows.
C26_TotalsCountCleanedRows ==
    outcome = "rendered" /\ view \in {"school", "correlation"} =>
        LET tab == IF view = "school" THEN estatisticas_escolas
                   ELSE medias_por_escola
        IN  /\ resumo.Total_de_Alunos = SumCounts(tab)
            /\ resumo.Total_de_Alunos = final_count
            /\ final_count = Len(data_clean)
            /\ resumo.Total_de_Escolas = Len(tab)
            /\ resumo.Total_de_Escolas = Cardinality(CleanSchoolSet)

\* correlation_analysis dropped a row and counts three students in two
\* schools, one of them with two students.
C26_Witness ==
    /\ view = "correlation"
    /\ outcome = "rendered"
    /\ final_count < initial_count
    /\ resumo.Total_de_Alunos = 3
    /\ resumo.Total_de_Escolas = 2
    /\ \E i \in 1..Len(medias_por_escola) : medias_por_escola[i].Quantidade_Alunos = 2

----------------------------------------------------------------------------
(* C27 *)

RECURSIVE SumDist(_)
SumDist(dist) == IF dist = <<>> THEN 0 ELSE Head(dist).count + SumDist(Tail(dist))

\* C27: every school of the per-school table of correlation_analysis has
\* exactly one size category, fixed by its count n >= 1: Pequena for
\* 1 <= n <= 50, Media for 51 <= n <= 100, Grande for 101 <= n <= 200, Muito
\* Grande for n > 200; and the counts of the categories add up to the
\* number of schools.
C27_SizeCategories ==
    view \in {"tamanho", "correlation"} /\ medias_por_escola # <<>> =>
        /\ \A i \in 1..Len(medias_por_escola) :
              LET n == medias_por_escola[i].Quantidade_Alunos
                  t == medias_por_escola[i].Tamanho_Escola
              IN  /\ n >= 1
                  /\ t = "Pequena (<=50)" <=> n <= 50
                  /\ t = "Media (51-100)" <=> 51 <= n /\ n <= 100
                  /\ t = "Grande (101-200)" <=> 101 <= n /\ n <= 200
                  /\ t = "Muito Grande (>200)" <=> n > 200
        /\ dist_tamanho # <<>> =>
              /\ SumDist(dist_tamanho) = Len(medias_por_escola)
              /\ \A k \in 1..Len(dist_tamanho) :
                    dist_tamanho[k].count =
                        Cardinality({i \in 1..Len(medias_por_escola) :
                            medias_por_escola[i].Tamanho_Escola =
                                dist_tamanho[k].Tamanho_Escola})

\* Schools of 50, 51 and 201 students fall in three different categories.
C27_Witness ==
    /\ view = "tamanho"
    /\ Len(medias_por_escola) = 3
    /\ medias_por_escola[1].Quantidade_Alunos = 50
    /\ medias_por_escola[1].Tamanho_Escola = "Pequena (<=50)"
    /\ medias_por_escola[2].Quantidade_Alunos = 51
    /\ medias_por_escola[2].Tamanho_Escola = "Media (51-100)"
    /\ medias_por_escola[3].Quantidade_Alunos = 201
    /\ medias_por_escola[3].Tamanho_Escola = "Muito Grande (>200)"
    /\ dist_tamanho[3].count = 0

----------------------------------------------------------------------------
(* C28 *)

\* Some coefficient of the summary is above x (thousandths), or below it.
SomeAbove(x) ==
    \E m \in 1..Len(resumo_correlacoes) :
        ~resumo_correlacoes[m].correlacao.nan /\ resumo_correlacoes[m].correlacao.v > x

SomeBelow(x) ==
    \E m \in 1..Len(resumo_correlacoes) :
        ~resumo_correlacoes[m].correlacao.nan /\ resumo_correlacoes[m].correlacao.v < x

----------------------------------------------------------------------------
(* C29 *)

\* The columns of the dataset matched by the keywords of each role of
\* school_statistics.
MatchedPontos == find_similar_columns(data.cols, pontos_keywords)

MatchedEscola == find_similar_columns(data.cols, escola_keywords)

\* C29: school_statistics uses the automatically resolved columns only when
\* both the score role and the school role have a keyword match, and then
\* it uses the first match of each; when a role has no match the function
\* announces the manual selection and takes both columns from it.
C29_AutoOnlyWhenBothMatched ==
    view = "school" =>
        /\ InSeq("success_colunas", ui) <=>
              MatchedPontos # <<>> /\ MatchedEscola # <<>>
        /\ InSeq("warning_manual", ui) <=>
              MatchedPontos = <<>> \/ MatchedEscola = <<>>
        /\ MatchedPontos # <<>> /\ MatchedEscola # <<>> =>
              /\ colunas_desempenho = <<MatchedPontos[1]>>
              /\ coluna_escola = MatchedEscola[1]

\* Only the school role was matched, and the school column in use is the
\* one chosen by hand, not the matched one.
C29_Witness ==
    /\ view = "school"
    /\ outcome = "rendered"
    /\ MatchedPontos = <<>>
    /\ MatchedEscola # <<>>
    /\ coluna_escola # MatchedEscola[1]
    /\ InSeq("warning_manual", ui)

====
